---- MODULE Spec2Model ----
(***************************************************************************)
(* Verification model of the crawl-and-extract engine of proof_bot:       *)
(*   - DomainRateLimiter.wait and its callers        (specification SpecRL) *)
(*   - run_scraper: de-duplication, concurrent enrichment, aggregation and  *)
(*     ranking                                       (specification SpecRun) *)
(*   - the life of one Lead: construction, enrichment steps, scoring         *)
(*                                                   (specification SpecLead) *)
(*   - _compute_icp_score as a pure function         (specification SpecIcp) *)
(* Text is a sequence of one-character strings, so that lower(), strip()   *)
(* and the regular expressions can be computed character by character.     *)
(* Time is discrete; `now` stands for time.monotonic().                    *)
(***************************************************************************)
EXTENDS Integers, Naturals, Sequences, FiniteSets, TLC

VARIABLES
    \* ---- rate limiter (utils.py) ----
    now,        \* time.monotonic()
    last_at,    \* DomainRateLimiter._last_at : domain -> timestamp (-1: key absent)
    locks,      \* DomainRateLimiter._locks   : domain -> lock (made = FALSE: key absent)
    tpc,        \* per task: position in wait() and in the caller's request
    turl,       \* per task: the url passed to wait()
    twake,      \* per task: the instant its asyncio.sleep ends (0 when not sleeping)
    lastRet,    \* per domain: instant of the most recent return of wait() (-1: none)
    minGap,     \* per domain: smallest gap seen between consecutive returns of wait(),
                \* capped at MinDelay (-1: fewer than two returns)
    doneAt      \* per domain: instant the most recent request completed (-1: none)

VARIABLES
    \* ---- run_scraper (scraper.py) ----
    target_sic_codes,   \* config.sic_codes = EliteWebScraper.target_sic_codes
    pc,                 \* position of run_scraper
    leads,              \* all_leads: the Lead objects in source order, mutated in place
    unique_leads,       \* indices into leads, in de-duplicated order
    results,            \* what asyncio.gather collects, one slot per enrichment task
    enriched_leads      \* indices into leads: the list run_scraper builds and returns

VARIABLES
    \* ---- one Lead object (models.py, enrich_lead_data) ----
    lead,               \* the Lead's fields
    lpc,                \* where the Lead is in its life
    score_arg           \* the data_quality_score passed to the constructor

VARIABLES
    \* ---- _compute_icp_score (scraper.py) ----
    target_location,    \* config.target_location
    icp_sic,            \* argument sic_text
    icp_addr,           \* argument address
    icp_score           \* the value returned, in hundredths (-1: not yet called)

VARIABLES
    \* ---- the source phase of run_scraper and scrape_companies_house ----
    exhaustive_mode,    \* config.exhaustive_mode
    target_industry,    \* config.target_industry
    cpc,                \* position of run_scraper / scrape_companies_house
    qi,                 \* index of the current query (letter) in the query list
    submitted,          \* indices of the queries submitted so far, in order
    page_num,           \* page_num
    page_empty,         \* the results page just loaded showed no row / company link
    next_link,          \* the results page just loaded shows an enabled next link
    rows,               \* rows (company links) of the page still to be processed
    visited,            \* visited_company_urls
    visits,             \* per company URL, the detail visits started in this run
    ch_count,           \* len(leads) in scrape_companies_house
    ch_leads,           \* leads of scrape_companies_house: the Leads appended, in order
    site,               \* what the profile page of each company shows
    navs,               \* the navigation steps made: what, rate-limited?, consent?
    ch_failed,          \* the outer handler of scrape_companies_house ran
    abort_cause,        \* the step whose exception reached that handler
    page_failed_at,     \* index of the query whose results page failed to load
    clutch_ran          \* scrape_clutch was run

VARIABLES
    \* ---- _merge_selectors (scraper.py) ----
    loaded,             \* argument loaded: the override mapping read from the file
    default,            \* argument default: the table of _default_selectors
    merged              \* the mapping returned (NotMerged before the call)

VARIABLES
    \* ---- _extract_sic_codes_list (scraper.py) ----
    sic_input,          \* argument sic_text
    sic_list            \* the list returned (done = FALSE: not yet called)

VARIABLES
    \* ---- _extract_sic (scraper.py) ----
    sic_selector_configs, \* the configured selectors for nature_of_business_sic, in order
    sic_page,            \* the page: what each selector's locator gives
    sic_label,           \* the page: what the 'Nature of business (SIC)' label gives
    sic_consulted,       \* the selectors passed to page.locator so far, in order
    sic_code            \* the text returned (done = FALSE: not yet called)

VARIABLES
    \* ---- website discovery: enrich_lead_data step 1 and _guess_website_via_search ----
    website,             \* lead.website
    company_name,        \* lead.company_name
    location_hint,       \* lead.location
    gpc,                 \* position of the website discovery
    searches,            \* the number of search requests issued so far
    search_page,         \* the response to the last search request
    guessed             \* what _guess_website_via_search returned (done = FALSE: not returned)

VARIABLES
    \* ---- _choose_ceo_from_officers (scraper.py) ----
    officer_list,        \* argument officers
    chosen_ceo          \* the value returned (done = FALSE: not yet called)

VARIABLES
    \* ---- _enrich_via_http and _get_with_robots (scraper.py) ----
    respect_robots,      \* config.respect_robots
    has_website,         \* lead.website is set
    contacts,            \* lead.phone_number, lead.email and their verified flags
    harvested,           \* what each page given to _harvest_contacts_from_html held
    hpc,                 \* position of _enrich_via_http
    path_i,              \* index in _try_paths of the URL the loop is at
    disallowed,             \* indices of the URLs the loop came to that robots.txt disallows
    wait_calls,         \* indices of the URLs passed to rate_limiter.wait, in order
    fetched             \* indices of the URLs passed to session.get, in order

VARIABLES
    \* ---- _scrape_single_company_profile, the officers section (scraper.py) ----
    opc,                 \* position in the officers section
    cards,               \* the officer cards of the people page, in page order
    card_i,              \* index of the card the loop is at
    active_officers,     \* active_officers
    detail_failed,       \* indices of the cards whose detail-page visit failed
    tab_failed,          \* the people tab or the card list raised
    returned_lead       \* the Lead returned (done = FALSE: not yet returned)

rlVars == <<now, last_at, locks, tpc, turl, twake, lastRet, minGap, doneAt>>
runVars == <<pc, leads, unique_leads, results, enriched_leads>>
leadVars == <<lead, lpc, score_arg>>
icpVars == <<target_location, icp_sic, icp_addr, icp_score>>
crawlVars == <<exhaustive_mode, target_industry, cpc, qi, submitted, page_num, page_empty,
               next_link, rows, visited, visits, ch_count, ch_leads, site, navs, ch_failed,
               abort_cause, page_failed_at, clutch_ran>>

mergeVars == <<loaded, default, merged>>

sicListVars == <<sic_input, sic_list>>

extractSicVars == <<sic_selector_configs, sic_page, sic_label, sic_consulted, sic_code>>

guessVars == <<website, company_name, location_hint, gpc, searches, search_page, guessed>>

ceoVars == <<officer_list, chosen_ceo>>

httpVars == <<respect_robots, has_website, contacts, harvested, hpc, path_i, disallowed,
              wait_calls, fetched>>

officersVars == <<opc, cards, card_i, active_officers, detail_failed, tab_failed, returned_lead>>

vars == <<rlVars, target_sic_codes, runVars, leadVars, icpVars, crawlVars, mergeVars,
          sicListVars, extractSicVars, guessVars, ceoVars, httpVars, officersVars>>

\* What the actions of one component leave alone: the state of the others.
notRL == <<target_sic_codes, runVars, leadVars, icpVars, crawlVars, mergeVars, sicListVars,
           extractSicVars, guessVars, ceoVars, httpVars, officersVars>>
notRun == <<target_sic_codes, rlVars, leadVars, icpVars, crawlVars, mergeVars, sicListVars,
            extractSicVars, guessVars, ceoVars, httpVars, officersVars>>
notLead == <<target_sic_codes, rlVars, runVars, icpVars, crawlVars, mergeVars, sicListVars,
             extractSicVars, guessVars, ceoVars, httpVars, officersVars>>
notIcp == <<target_sic_codes, rlVars, runVars, leadVars, crawlVars, mergeVars, sicListVars,
            extractSicVars, guessVars, ceoVars, httpVars, officersVars>>
notCrawl == <<target_sic_codes, rlVars, runVars, leadVars, icpVars, mergeVars, sicListVars,
              extractSicVars, guessVars, ceoVars, httpVars, officersVars>>
notMerge == <<target_sic_codes, rlVars, runVars, leadVars, icpVars, crawlVars, sicListVars,
              extractSicVars, guessVars, ceoVars, httpVars, officersVars>>
notSicList == <<rlVars, target_sic_codes, runVars, leadVars, icpVars, crawlVars, mergeVars,
                extractSicVars, guessVars, ceoVars, httpVars, officersVars>>
notExtractSic == <<rlVars, target_sic_codes, runVars, leadVars, icpVars, crawlVars, mergeVars,
                   sicListVars, guessVars, ceoVars, httpVars, officersVars>>
notGuess == <<rlVars, target_sic_codes, runVars, leadVars, icpVars, crawlVars, mergeVars,
              sicListVars, extractSicVars, ceoVars, httpVars, officersVars>>
notCeo == <<rlVars, target_sic_codes, runVars, leadVars, icpVars, crawlVars, mergeVars,
            sicListVars, extractSicVars, guessVars, httpVars, officersVars>>
notHttp == <<rlVars, target_sic_codes, runVars, leadVars, icpVars, crawlVars, mergeVars,
             sicListVars, extractSicVars, guessVars, ceoVars, officersVars>>
notOfficers == <<rlVars, target_sic_codes, runVars, leadVars, icpVars, crawlVars, mergeVars,
                 sicListVars, extractSicVars, guessVars, ceoVars, httpVars>>

-----------------------------------------------------------------------------
\* Bounds of the rate-limiter model.
NumTasks == 2
MinDelay == 2
MaxTime == 5

Tasks == 1..NumTasks

\* The URLs the tasks pass to the limiter, with what urlparse makes of them.
NoUrl == ""
Urls == {NoUrl, "example.com/contact", "https://a.com/", "http://[bad"}

\* urlparse(url) raises ValueError("Invalid IPv6 URL") for an unbalanced bracket.
UrlparseRaises(url) == url = "http://[bad"

\* urlparse(url).netloc
Netloc(url) == IF url = "https://a.com/" THEN "a.com" ELSE ""

\* DomainRateLimiter._domain
Domain(url) == Netloc(url)

Domains == {Domain(u) : u \in Urls}

Max(a, b) == IF a >= b THEN a ELSE b
Min(a, b) == IF a <= b THEN a ELSE b

\* asyncio.Lock: free exactly when nobody holds it and nobody waits for it.
NoLock == [made |-> FALSE, holder |-> 0, waiters |-> <<>>]
NewLock == [made |-> TRUE, holder |-> 0, waiters |-> <<>>]

\* Lock.release(): the lock passes to the first waiter, which resumes later.
ReleasedNever(l) == l
Released(l) ==
    IF l.waiters = <<>> THEN [l EXCEPT !.holder = 0]
    ELSE [l EXCEPT !.holder = Head(l.waiters), !.waiters = Tail(l.waiters)]

\* self._last_at.get(domain, 0.0)
LastAt(d) == IF last_at[d] = -1 THEN 0 ELSE last_at[d]

\* time_to_wait = max(0.0, self.min_delay - elapsed_since_last)
\* A limiter that never delays : the fault the spacing claim C1 must detect.
TimeToWaitNoDelay(d) == 0
TimeToWait(d) == Max(0, MinDelay - (now - LastAt(d)))

\* Bookkeeping of the instants at which wait() returns for domain d.
NoteReturn(d) ==
    /\ lastRet' = [lastRet EXCEPT ![d] = now]
    /\ minGap' = [minGap EXCEPT ![d] =
                    IF lastRet[d] = -1 THEN @
                    ELSE IF @ = -1 THEN Min(now - lastRet[d], MinDelay)
                    ELSE Min(@, now - lastRet[d])]

-----------------------------------------------------------------------------
RLInit ==
    /\ now = 0
    /\ last_at = [d \in Domains |-> -1]
    /\ locks = [d \in Domains |-> NoLock]
    /\ tpc = [t \in Tasks |-> "idle"]
    /\ turl = [t \in Tasks |-> NoUrl]
    /\ twake = [t \in Tasks |-> 0]
    /\ lastRet = [d \in Domains |-> -1]
    /\ minGap = [d \in Domains |-> -1]
    /\ doneAt = [d \in Domains |-> -1]

\* self._last_at[domain] = time.monotonic(); leaving the `async with` releases the
\* lock; wait() returns.
StampAndReturn(t, d, lk) ==
    /\ tpc' = [tpc EXCEPT ![t] = "ready"]
    /\ twake' = [twake EXCEPT ![t] = 0]
    /\ last_at' = [last_at EXCEPT ![d] = now]
    /\ locks' = [lk EXCEPT ![d] = Released(lk[d])]
    /\ NoteReturn(d)

\* The body of `async with self._locks[domain]` once the lock is held, up to the
\* first suspension: either sleep, or stamp _last_at, release and return.
Critical(t, d, lk) ==
    LET w == TimeToWait(d) IN
    IF w > 0
    THEN /\ tpc' = [tpc EXCEPT ![t] = "sleeping"]
         /\ twake' = [twake EXCEPT ![t] = now + w]
         /\ locks' = lk
         /\ UNCHANGED <<last_at, lastRet, minGap>>
    ELSE StampAndReturn(t, d, lk)

\* A task calls limiter.wait(url) (directly or through polite_goto).
CallWait(t, u) ==
    /\ tpc[t] = "idle"
    /\ IF u = NoUrl
       THEN /\ tpc' = [tpc EXCEPT ![t] = "flat_sleep"]
            /\ twake' = [twake EXCEPT ![t] = now + MinDelay]
            /\ UNCHANGED <<last_at, locks, turl, lastRet, minGap>>
       ELSE IF UrlparseRaises(u)
       THEN /\ tpc' = [tpc EXCEPT ![t] = "raised"]
            /\ UNCHANGED <<last_at, locks, turl, twake, lastRet, minGap>>
       ELSE LET d == Domain(u)
                l == IF locks[d].made THEN locks[d] ELSE NewLock IN
            /\ turl' = [turl EXCEPT ![t] = u]
            /\ IF l.holder = 0 /\ l.waiters = <<>>
               THEN Critical(t, d, [locks EXCEPT ![d] = [l EXCEPT !.holder = t]])
               ELSE /\ tpc' = [tpc EXCEPT ![t] = "lock_wait"]
                    /\ locks' = [locks EXCEPT ![d] = [l EXCEPT !.waiters = Append(@, t)]]
                    /\ UNCHANGED <<last_at, twake, lastRet, minGap>>
    /\ UNCHANGED <<now, doneAt>>
    /\ UNCHANGED notRL

\* A waiter that was handed the lock resumes inside the `async with`.
LockGranted(t) ==
    /\ tpc[t] = "lock_wait"
    /\ locks[Domain(turl[t])].holder = t
    /\ Critical(t, Domain(turl[t]), locks)
    /\ UNCHANGED <<now, turl, doneAt>>
    /\ UNCHANGED notRL

\* asyncio.sleep(time_to_wait) ends: stamp _last_at, leave the `async with`, return.
Wake(t) ==
    /\ tpc[t] = "sleeping"
    /\ now >= twake[t]
    /\ StampAndReturn(t, Domain(turl[t]), locks)
    /\ UNCHANGED <<now, turl, doneAt>>
    /\ UNCHANGED notRL

\* The flat asyncio.sleep(self.min_delay) of a call without url ends; wait returns.
FlatWake(t) ==
    /\ tpc[t] = "flat_sleep"
    /\ now >= twake[t]
    /\ tpc' = [tpc EXCEPT ![t] = "idle"]
    /\ twake' = [twake EXCEPT ![t] = 0]
    /\ UNCHANGED <<now, last_at, locks, turl, lastRet, minGap, doneAt>>
    /\ UNCHANGED notRL

InFlight(d) == {t \in Tasks : tpc[t] = "in_flight" /\ Domain(turl[t]) = d}

\* After wait(url) returned the caller issues its request (page.goto, session.get).
StartRequest(t) ==
    /\ tpc[t] = "ready"
    /\ tpc' = [tpc EXCEPT ![t] = "in_flight"]
    /\ UNCHANGED <<now, last_at, locks, turl, twake, lastRet, minGap, doneAt>>
    /\ UNCHANGED notRL

\* The request completes (response or error); the task is free for its next fetch.
CompleteRequest(t) ==
    /\ tpc[t] = "in_flight"
    /\ tpc' = [tpc EXCEPT ![t] = "idle"]
    /\ doneAt' = [doneAt EXCEPT ![Domain(turl[t])] = now]
    /\ turl' = [turl EXCEPT ![t] = NoUrl]
    /\ UNCHANGED <<now, last_at, locks, twake, lastRet, minGap>>
    /\ UNCHANGED notRL

Tick ==
    /\ now < MaxTime
    /\ now' = now + 1
    /\ UNCHANGED <<last_at, locks, tpc, turl, twake, lastRet, minGap, doneAt>>
    /\ UNCHANGED notRL

\* The runs in which termination is analysed: the callers make their calls up to the
\* instant LastCall, and the clock runs on until every call made can have ended.
LastCall == 1
LiveHorizon == LastCall + NumTasks * MinDelay

CallWaitEarly(t, u) == now <= LastCall /\ CallWait(t, u)

\* The event loop runs a task whose sleep is over or whose lock was granted before the
\* clock is read again.
Runnable(t) ==
    \/ tpc[t] \in {"sleeping", "flat_sleep"} /\ now >= twake[t]
    \/ tpc[t] = "lock_wait" /\ locks[Domain(turl[t])].holder = t

TickLive ==
    /\ now < LiveHorizon
    /\ \A t \in Tasks : ~Runnable(t)
    /\ now' = now + 1
    /\ UNCHANGED <<last_at, locks, tpc, turl, twake, lastRet, minGap, doneAt>>
    /\ UNCHANGED notRL

RLLiveNext ==
    \/ \E t \in Tasks, u \in Urls : CallWaitEarly(t, u)
    \/ \E t \in Tasks : LockGranted(t)
    \/ \E t \in Tasks : Wake(t)
    \/ \E t \in Tasks : FlatWake(t)
    \/ \E t \in Tasks : StartRequest(t)
    \/ \E t \in Tasks : CompleteRequest(t)
    \/ TickLive

\* asyncio runs every task that is ready to run, and time passes.
RLFairness ==
    /\ \A t \in Tasks : WF_vars(LockGranted(t)) /\ WF_vars(Wake(t)) /\ WF_vars(FlatWake(t))
    /\ WF_vars(TickLive)

RLNext ==
    \/ \E t \in Tasks, u \in Urls : CallWait(t, u)
    \/ \E t \in Tasks : LockGranted(t)
    \/ \E t \in Tasks : Wake(t)
    \/ \E t \in Tasks : FlatWake(t)
    \/ \E t \in Tasks : StartRequest(t)
    \/ \E t \in Tasks : CompleteRequest(t)
    \/ Tick

-----------------------------------------------------------------------------
\* Text helpers: str.lower(), str.strip(), substring test, \b(\d{5})\b.

Whitespace == {" "}
Digits == {"0", "1", "2", "3", "6", "7"}
Letters == {"a", "b", "c", "d", "e", "f", "g", "h", "i", "k", "l", "m", "n", "o", "p",
            "r", "s", "t", "u", "v", "w", "x", "y"}
Upper == {"A", "B", "C", "D", "E", "H", "L", "M", "N", "O", "S", "U", "Y"}

\* str.lower() on one character
LowerChar(c) ==
    CASE c = "A" -> "a" [] c = "B" -> "b" [] c = "C" -> "c" [] c = "D" -> "d"
      [] c = "E" -> "e" [] c = "H" -> "h" [] c = "L" -> "l" [] c = "M" -> "m"
      [] c = "N" -> "n" [] c = "O" -> "o" [] c = "S" -> "s" [] c = "U" -> "u"
      [] c = "Y" -> "y" [] OTHER -> c

\* str.lower()
LowerStr(s) == [i \in 1..Len(s) |-> LowerChar(s[i])]

RECURSIVE LStrip(_)
LStrip(s) == IF s # <<>> /\ Head(s) \in Whitespace THEN LStrip(Tail(s)) ELSE s

RECURSIVE RStrip(_)
RStrip(s) ==
    IF s # <<>> /\ s[Len(s)] \in Whitespace THEN RStrip(SubSeq(s, 1, Len(s) - 1)) ELSE s

\* str.strip()
Strip(s) == RStrip(LStrip(s))

\* sub in s
Contains(sub, s) ==
    \E i \in 0..(Len(s) - Len(sub)) : SubSeq(s, i + 1, i + Len(sub)) = sub

-----------------------------------------------------------------------------
\* Lead (models.py) and its quality score.

\* Lead.calculate_quality_score: the weights dictionary, summed over truthy fields.
CalcScore(l) ==
      (IF l.phone_number THEN 20 ELSE 0)
    + (IF l.email THEN 20 ELSE 0)
    + (IF l.linkedin THEN 15 ELSE 0)
    + (IF l.ceo_name THEN 15 ELSE 0)
    + (IF l.employee_count THEN 10 ELSE 0)
    + (IF l.phone_verified THEN 10 ELSE 0)
    + (IF l.email_verified THEN 10 ELSE 0)

\* Lead.calculate_quality_score: self.data_quality_score = score
Recalculated(l) == [l EXCEPT !.data_quality_score = CalcScore(l)]

\* Lead.__post_init__
PostInitSkipped(l) == l
PostInit(l) == Recalculated(l)

\* Lead(company_name=..., source=..., ...) followed by __post_init__; the contact,
\* social and decision-maker fields keep their defaults; sic_codes is set right after.
\* officers: whether the list of active officers holds a named officer.
\* socials: whether the attribute lead.socials exists and holds a 'linkedin' key; the
\* dataclass declares no such field, so a new Lead has none.
\* senior: whether an officer's role is exactly director, ceo or managing director.
\* ideal_customer_profile_match is kept in hundredths.
NewLead(name, source, sic) ==
    PostInit([company_name |-> name, source |-> source, sic_codes |-> sic,
                  phone_number |-> FALSE, email |-> FALSE, linkedin |-> FALSE,
                  ceo_name |-> FALSE, employee_count |-> FALSE,
                  phone_verified |-> FALSE, email_verified |-> FALSE,
                  officers |-> FALSE, senior |-> FALSE, socials |-> FALSE,
                  location |-> <<>>, ideal_customer_profile_match |-> 0,
                  data_quality_score |-> 0])

-----------------------------------------------------------------------------
\* Classification codes.

SicLen == 5

IsWordChar(c) == c \in Digits \/ c \in Letters \/ c \in Upper \/ c = "_"

\* Five digits at position i of text, standing alone or not.
SicMatchAtAnyRun(text, i) ==
    /\ i + SicLen - 1 <= Len(text)
    /\ \A k \in i..(i + SicLen - 1) : text[k] \in Digits

\* A match of \b(\d{5})\b starts at position i of text.
SicMatchAt(text, i) ==
    /\ i + SicLen - 1 <= Len(text)
    /\ \A k \in i..(i + SicLen - 1) : text[k] \in Digits
    /\ i = 1 \/ ~IsWordChar(text[i - 1])
    /\ i + SicLen > Len(text) \/ ~IsWordChar(text[i + SicLen])

S_Unknown == <<"U", "n", "k", "n", "o", "w", "n">>

RECURSIVE SicScan(_, _, _)
SicScan(text, i, acc) ==
    IF i > Len(text) THEN acc
    ELSE IF SicMatchAt(text, i)
         THEN LET code == SubSeq(text, i, i + SicLen - 1) IN
              SicScan(text, i + SicLen,
                      IF \E k \in 1..Len(acc) : acc[k] = code THEN acc ELSE Append(acc, code))
         ELSE SicScan(text, i + 1, acc)

\* _extract_sic_codes_list: re.findall, then de-duplicated keeping first-seen order.
ExtractSicCodesList(text) ==
    IF text = <<>> \/ text = S_Unknown THEN <<>> ELSE SicScan(text, 1, <<>>)

Range(f) == {f[i] : i \in DOMAIN f}

\* _sic_matches_target
SicMatchesTarget(text) ==
    IF target_sic_codes = {} THEN TRUE
    ELSE target_sic_codes \cap Range(ExtractSicCodesList(text)) # {}

-----------------------------------------------------------------------------
\* _compute_icp_score and the filters of the registry profile.

\* The weights 0.7 and 0.3, in hundredths.
IndustryWeight == 70
GeoWeight == 30

S_london == <<"l", "o", "n", "d", "o", "n">>
S_London_sp == <<"L", "o", "n", "d", "o", "n", " ">>
S_HighSt == <<"1", " ", "H", "i", "g", "h", " ", "S", "t", ",", " ", "L", "o", "n", "d", "o", "n">>
S_Leeds == <<"L", "e", "e", "d", "s">>
S_two_codes == <<"6", "2", "0", "1", "2", ",", " ", "7", "3", "1", "1", "0">>
S_six_digits == <<"7", "3", "1", "1", "0", "0">>
S_glued == <<"x", "7", "3", "1", "1", "0">>

\* _address_matches, for a given config.target_location
AddressMatchesCaseSensitive(address) ==
    LET loc == Strip(target_location) IN
    IF loc = <<>> THEN TRUE ELSE Contains(loc, Strip(address))
AddressMatches(address) ==
    LET loc == LowerStr(Strip(target_location)) IN
    IF loc = <<>> THEN TRUE ELSE Contains(loc, LowerStr(Strip(address)))

\* _compute_icp_score: round(0.7 * industry_match + 0.3 * geo_match, 2), in hundredths
ComputeIcpScore(sic_text, address) ==
      IndustryWeight * (IF SicMatchesTarget(sic_text) THEN 1 ELSE 0)
    + GeoWeight * (IF AddressMatches(address) THEN 1 ELSE 0)

\* What a company profile page shows: whether 'Company status' reads active, the
\* nature of business and the registered office address.
Profile(active, sic, address) == [active |-> active, sic |-> sic, address |-> address]

\* _scrape_single_company_profile, the pre-filter checks: the check that returns None,
\* "pass" when the Lead is built.
PreFilterStatusOnly(prof) == IF ~prof.active THEN "status" ELSE "pass"
PreFilter(prof) ==
    IF ~prof.active THEN "status"
    ELSE IF ~SicMatchesTarget(prof.sic) THEN "sic"
    ELSE IF ~AddressMatches(prof.address) THEN "address"
    ELSE "pass"

-----------------------------------------------------------------------------
\* run_scraper.

\* Bound: the number of raw records the sources yield in one run.
MaxRaw == 3

S_73110 == <<"7", "3", "1", "1", "0">>
S_62012 == <<"6", "2", "0", "1", "2">>

\* Company names as the sources deliver them, stripped by the scrapers: the registry
\* heading gives "Acme", "Beta" or "", the directory listing "acme", "Hub" or "".
RegistryNames == {<<"A", "c", "m", "e">>, <<"B", "e", "t", "a">>, <<>>}
DirectoryNames == {<<"a", "c", "m", "e">>, <<"H", "u", "b">>, <<>>}

\* What the registry page shows as nature of business.
SicTexts == {S_73110}

\* The registered office addresses and the directory locations of the companies.
Addresses == {S_HighSt, S_Leeds}

\* The officers of a registry record: none, officers none of whom has a senior role,
\* officers with a director among them.
OfficerSets == {<<FALSE, FALSE>>, <<TRUE, FALSE>>, <<TRUE, TRUE>>}

\* _scrape_single_company_profile returns a Lead only if the status is active and the
\* SIC text and the address pass the checks; lead.location = address,
\* lead.officers = active_officers,
\* lead.ideal_customer_profile_match = _compute_icp_score(sic, address).
RegistryLeads ==
    {[NewLead(n, "Companies House", p[1]) EXCEPT
            !.officers = o[1], !.senior = o[2], !.location = p[2],
            !.ideal_customer_profile_match = ComputeIcpScore(p[1], p[2])] :
        n \in RegistryNames, o \in OfficerSets,
        p \in {x \in SicTexts \X Addresses : PreFilter(Profile(TRUE, x[1], x[2])) = "pass"}}

\* scrape_clutch: the listing is skipped unless config.target_location is empty or
\* target_location.lower() occurs in loc.lower().
ClutchLocationPasses(loc) ==
    target_location = <<>> \/ Contains(LowerStr(target_location), LowerStr(loc))

\* scrape_clutch: its leads carry no classification codes (sic_codes = None).
DirectoryLeads ==
    {[NewLead(n, "Clutch.co", <<>>) EXCEPT !.location = a] :
        n \in DirectoryNames, a \in {x \in Addresses : ClutchLocationPasses(x)}}

\* key = (lead.company_name or "").strip().lower()
DedupKeyCaseSensitive(name) == Strip(name)
DedupKey(name) == LowerStr(Strip(name))

\* The de-duplication loop: indices of the leads kept, in order.
RECURSIVE DedupFrom(_, _, _, _)
DedupFrom(ls, i, seen, kept) ==
    IF i > Len(ls) THEN kept
    ELSE LET key == DedupKey(ls[i].company_name) IN
         IF key # <<>> /\ key \notin seen
         THEN DedupFrom(ls, i + 1, seen \cup {key}, Append(kept, i))
         ELSE DedupFrom(ls, i + 1, seen, kept)

RECURSIVE DedupFromAnyKey(_, _, _, _)
DedupFromAnyKey(ls, i, seen, kept) ==
    IF i > Len(ls) THEN kept
    ELSE LET key == DedupKey(ls[i].company_name) IN
         IF key \notin seen
         THEN DedupFromAnyKey(ls, i + 1, seen \cup {key}, Append(kept, i))
         ELSE DedupFromAnyKey(ls, i + 1, seen, kept)

DedupAnyKey(ls) == DedupFromAnyKey(ls, 1, {}, <<>>)
Dedup(ls) == DedupFrom(ls, 1, {}, <<>>)

Pending == [kind |-> "pending", ref |-> 0]

\* BotConfig.sic_codes: no target, or advertising agencies.
TargetSets == {{}, {S_73110}}

\* config.target_location as run_scraper is run with it.
RunLocations == {S_london}

RunInit ==
    /\ pc = "scrape"
    /\ leads = <<>>
    /\ unique_leads = <<>>
    /\ results = <<>>
    /\ enriched_leads = <<>>

\* The sources are scraped (registry first, then the directory), the raw records are
\* de-duplicated and one enrichment task per unique record is handed to asyncio.gather.
ScrapeAndDedup ==
    /\ pc = "scrape"
    /\ \E n \in 0..MaxRaw : \E k \in 0..n :
       \E ch \in [1..k -> RegistryLeads], cl \in [1..(n - k) -> DirectoryLeads] :
        /\ leads' = ch \o cl
        /\ IF ch \o cl = <<>>
           THEN /\ pc' = "done"
                /\ UNCHANGED <<unique_leads, results>>
           ELSE /\ unique_leads' = Dedup(ch \o cl)
                /\ results' = [i \in 1..Len(Dedup(ch \o cl)) |-> Pending]
                /\ pc' = "gather"
    /\ UNCHANGED enriched_leads
    /\ UNCHANGED notRun

\* What contact harvesting finds on the company's pages: nothing, a phone number, a
\* phone number and an email address, or a link to a LinkedIn company page.
Harvests == {"none", "phone", "both", "linkedin"}

\* _harvest_contacts_from_html: a found phone / email is stored with its verified flag.
\* A phone (an email) is looked for only while the Lead has none. A LinkedIn link is
\* stored under socials["linkedin"] and lead.socials = socials.
Harvested(l, h) ==
    LET newPhone == ~l.phone_number /\ h \in {"phone", "both"}
        newEmail == ~l.email /\ h = "both" IN
    [l EXCEPT !.phone_number = @ \/ newPhone,
              !.phone_verified = @ \/ newPhone,
              !.email = @ \/ newEmail,
              !.email_verified = @ \/ newEmail,
              !.socials = @ \/ (h = "linkedin")]

\* enrich_lead_data step 3: lead.ceo_name = ceo_name when the officers give a name.
CeoInferred(l) == IF l.officers THEN [l EXCEPT !.ceo_name = TRUE] ELSE l

\* enrich_lead_data step 4: the ICP score is computed if the Lead has none (0.0), and
\* raised by 0.20, capped at 1.0, when a senior officer is present.
IcpBoostUncapped(icp) == icp + 20
IcpBoost(icp) == IF 100 < icp + 20 THEN 100 ELSE icp + 20

IcpScored(l) ==
    LET icp == IF l.ideal_customer_profile_match = 0
               THEN ComputeIcpScore(l.sic_codes, l.location)
               ELSE l.ideal_customer_profile_match IN
    [l EXCEPT !.ideal_customer_profile_match = IF l.senior THEN IcpBoost(icp) ELSE icp]

\* enrich_lead_data step 4: the SIC filter marks the record with -1, otherwise the
\* quality score is recomputed.
FilterDisabled(l) == Recalculated(l)
FilterOrScore(l) ==
    IF target_sic_codes # {} /\ ~SicMatchesTarget(l.sic_codes)
    THEN [l EXCEPT !.data_quality_score = -1]
    ELSE Recalculated(l)

\* One enrichment task runs to its return statement: gather stores the Lead it returns.
\* enrich_lead_data, from the HTTP enrichment to the returned Lead.
Enriched(l, h) == FilterOrScore(IcpScored(CeoInferred(Harvested(l, h))))

EnrichReturns(i, h) ==
    /\ pc = "gather"
    /\ results[i] = Pending
    /\ leads' = [leads EXCEPT ![unique_leads[i]] = Enriched(@, h)]
    /\ results' = [results EXCEPT ![i] = [kind |-> "lead", ref |-> unique_leads[i]]]
    /\ UNCHANGED <<pc, unique_leads, enriched_leads>>
    /\ UNCHANGED notRun

\* asyncio.gather(*enrich_tasks, return_exceptions=True): an exception raised by task i
\* is stored as its result; nothing else changes.
GatherPropagates(i) ==
    /\ pc' = "aborted"
    /\ results' = [k \in DOMAIN results |->
                     IF results[k] = Pending THEN [kind |-> "cancelled", ref |-> 0]
                     ELSE results[k]]
GatherStoresException(i) ==
    /\ results' = [results EXCEPT ![i] = [kind |-> "exception", ref |-> 0]]
    /\ pc' = pc

\* One enrichment task raises.
EnrichRaises(i) ==
    /\ pc = "gather"
    /\ results[i] = Pending
    /\ GatherStoresException(i)
    /\ UNCHANGED <<leads, unique_leads, enriched_leads>>
    /\ UNCHANGED notRun

\* elif result and getattr(result, "data_quality_score", 0) >= 0
SurvivesAny(r) == r.kind = "lead"
Survives(r) == r.kind = "lead" /\ leads[r.ref].data_quality_score >= 0

RECURSIVE Collect(_, _)
Collect(rs, i) ==
    IF i > Len(rs) THEN <<>>
    ELSE (IF Survives(rs[i]) THEN <<rs[i].ref>> ELSE <<>>) \o Collect(rs, i + 1)

\* gather has every outcome; the loop over results builds enriched_leads.
Aggregate ==
    /\ pc = "gather"
    /\ \A i \in DOMAIN results : results[i] # Pending
    /\ enriched_leads' = Collect(results, 1)
    /\ pc' = "sort"
    /\ UNCHANGED <<leads, unique_leads, results>>
    /\ UNCHANGED notRun

\* list.sort(key=score, reverse=True) is stable: x goes behind every element whose
\* score is at least its own.
RECURSIVE InsertDescUnstable(_, _)
InsertDescUnstable(sorted, x) ==
    IF sorted = <<>> THEN <<x>>
    ELSE IF leads[Head(sorted)].data_quality_score > leads[x].data_quality_score
         THEN <<Head(sorted)>> \o InsertDescUnstable(Tail(sorted), x)
         ELSE <<x>> \o sorted

RECURSIVE InsertDesc(_, _)
InsertDesc(sorted, x) ==
    IF sorted = <<>> THEN <<x>>
    ELSE IF leads[Head(sorted)].data_quality_score >= leads[x].data_quality_score
         THEN <<Head(sorted)>> \o InsertDesc(Tail(sorted), x)
         ELSE <<x>> \o sorted

RECURSIVE SortDesc(_, _)
SortDesc(xs, acc) ==
    IF xs = <<>> THEN acc ELSE SortDesc(Tail(xs), InsertDesc(acc, Head(xs)))

\* enriched_leads.sort(...); return enriched_leads
SortAndReturn ==
    /\ pc = "sort"
    /\ enriched_leads' = SortDesc(enriched_leads, <<>>)
    /\ pc' = "done"
    /\ UNCHANGED <<leads, unique_leads, results>>
    /\ UNCHANGED notRun

RunNext ==
    \/ ScrapeAndDedup
    \/ \E i \in DOMAIN results, h \in Harvests : EnrichReturns(i, h)
    \/ \E i \in DOMAIN results : EnrichRaises(i)
    \/ Aggregate
    \/ SortAndReturn

-----------------------------------------------------------------------------
\* The life of one Lead object.

NoLead == NewLead(<<>>, "", <<>>)

LeadInit ==
    /\ lead = NoLead
    /\ lpc = "none"
    /\ score_arg = 0

\* The scores callers pass to the constructor (main.py passes 80.0 for its mock lead).
ScoreArgs == {0, 80}

\* Lead(..., phone_number=.., email=.., ..., data_quality_score=s): the dataclass
\* stores every argument, then __post_init__ runs.
Construct(f, sic, s) ==
    /\ lpc = "none"
    /\ lead' = PostInit([company_name |-> <<"A", "c", "m", "e">>, source |-> "Clutch.co",
                         sic_codes |-> sic,
                         phone_number |-> f[1], email |-> f[2], linkedin |-> f[3],
                         ceo_name |-> f[4], employee_count |-> f[5],
                         phone_verified |-> f[6], email_verified |-> f[7],
                         officers |-> f[8], senior |-> FALSE, socials |-> FALSE,
                         location |-> <<>>, ideal_customer_profile_match |-> 0,
                         data_quality_score |-> s])
    /\ score_arg' = s
    /\ lpc' = "constructed"
    /\ UNCHANGED notLead

\* enrich_lead_data(lead) returns.
Enrich(h) ==
    /\ lpc = "constructed"
    /\ lead' = Enriched(lead, h)
    /\ lpc' = "enriched"
    /\ UNCHANGED <<score_arg, notLead>>

\* enrich_lead_data(lead) raises at its first fetch; the Lead is left as it is.
EnrichmentFails ==
    /\ lpc = "constructed"
    /\ lpc' = "failed"
    /\ UNCHANGED <<lead, score_arg, notLead>>

\* lead.calculate_quality_score() is called once more.
Recalculate ==
    /\ lpc \in {"constructed", "enriched"}
    /\ lead' = Recalculated(lead)
    /\ lpc' = "recalculated"
    /\ UNCHANGED <<score_arg, notLead>>

LeadNext ==
    \/ \E f \in [1..8 -> BOOLEAN], sic \in {<<>>, S_73110}, s \in ScoreArgs : Construct(f, sic, s)
    \/ \E h \in Harvests : Enrich(h)
    \/ EnrichmentFails
    \/ Recalculate

-----------------------------------------------------------------------------
\* _compute_icp_score.

TargetLocations == {<<>>, S_london, S_London_sp}
IcpSicTexts == {<<>>, S_Unknown, S_73110, S_62012, S_two_codes, S_six_digits, S_glued}
IcpAddresses == {<<>>, S_HighSt, S_Leeds}

IcpInit ==
    /\ target_location = <<>>
    /\ icp_sic = <<>>
    /\ icp_addr = <<>>
    /\ icp_score = -1

\* self._compute_icp_score(sic, address) is called.
CallComputeIcp ==
    /\ icp_score = -1
    /\ icp_score' = ComputeIcpScore(icp_sic, icp_addr)
    /\ UNCHANGED <<target_location, icp_sic, icp_addr, notIcp>>

IcpNext == CallComputeIcp

-----------------------------------------------------------------------------
\* The source phase of run_scraper: scrape_companies_house, then scrape_clutch.

\* Bounds of the crawl model: config.target_count, the letters of the alphabetical
\* search that are tried, the result pages of one query, the rows of one page.
TargetCount == 2
NumLetters == 2
MaxPages == 2
MaxRows == 2

S_London == <<"L", "o", "n", "d", "o", "n">>
S_digital_marketing == <<"d", "i", "g", "i", "t", "a", "l", " ", "m", "a", "r", "k", "e", "t", "i", "n", "g">>
S_seo == <<"s", "e", "o">>

\* config.target_industry and config.target_location as the crawl is run with them.
Industries == {<<>>, S_digital_marketing, S_seo}
CrawlLocations == {<<>>, S_London, S_London_sp}

\* f"{a} {b}"
Spaced(a, b) == a \o <<" ">> \o b

\* list(dict.fromkeys(seeds)): duplicates removed, first occurrence kept.
RECURSIVE FromKeys(_, _)
FromKeysKeepAll(xs, acc) == acc \o xs
FromKeys(xs, acc) ==
    IF xs = <<>> THEN acc
    ELSE IF \E k \in DOMAIN acc : acc[k] = Head(xs)
         THEN FromKeys(Tail(xs), acc)
         ELSE FromKeys(Tail(xs), Append(acc, Head(xs)))

\* _build_target_queries
BuildTargetQueries ==
    LET industry == Strip(target_industry)
        location == Strip(target_location)
        first == IF industry # <<>> /\ location # <<>>
                 THEN <<Spaced(industry, location)>> ELSE <<>>
        generic == IF location # <<>>
                   THEN <<Spaced(<<"d", "i", "g", "i", "t", "a", "l", " ", "m", "a", "r", "k", "e", "t", "i", "n", "g">>, location),
                          Spaced(<<"m", "a", "r", "k", "e", "t", "i", "n", "g", " ", "a", "g", "e", "n", "c", "y">>, location),
                          Spaced(<<"a", "d", "v", "e", "r", "t", "i", "s", "i", "n", "g", " ", "a", "g", "e", "n", "c", "y">>, location),
                          Spaced(<<"c", "r", "e", "a", "t", "i", "v", "e", " ", "a", "g", "e", "n", "c", "y">>, location)>>
                   ELSE <<<<"d", "i", "g", "i", "t", "a", "l", " ", "m", "a", "r", "k", "e", "t", "i", "n", "g", " ", "a", "g", "e", "n", "c", "y">>,
                          <<"a", "d", "v", "e", "r", "t", "i", "s", "i", "n", "g", " ", "a", "g", "e", "n", "c", "y">>>>
    IN FromKeys(SelectSeq(first \o generic, LAMBDA q : q # <<>>), <<>>)

\* for letter in 'ABCDEFGHIJKLMNOPQRSTUVWXYZ', cut to the letters tried.
Alphabet == <<"A", "B", "C", "D">>
LetterQueriesBackwards == [k \in 1..NumLetters |-> <<Alphabet[NumLetters + 1 - k]>>]
LetterQueries == [k \in 1..NumLetters |-> <<Alphabet[k]>>]

\* The queries (letters) scrape_companies_house iterates over.
Queries == IF exhaustive_mode THEN LetterQueries ELSE BuildTargetQueries

\* The company profile URLs the result pages link to.
CompanyUrls == {"/company/1", "/company/2"}

\* A result row: the href of its company link and whether its status cell reads active.
Row == [url : CompanyUrls, active : BOOLEAN]

\* What a results page can show: up to MaxRows rows.
PageContents == UNION {[1..n -> Row] : n \in 0..MaxRows}

\* A navigation step: its kind, whether limiter.wait(url) preceded it, whether
\* ensure_consent followed it.
Nav(kind, waited, consent) == [kind |-> kind, waited |-> waited, consent |-> consent]

\* utils.polite_goto(page, url, limiter=...): wait, goto, ensure_consent.
PoliteGoto(kind) == Nav(kind, TRUE, TRUE)

\* locator.click() followed by wait_for_load_state: the page changes with neither.
ClickThrough(kind) == Nav(kind, FALSE, FALSE)

\* _collect_company_links_from_search: the hrefs of the company links, duplicates
\* removed keeping the first; the status cell of the row is not read.
RECURSIVE CollectCompanyLinks(_, _)
CollectCompanyLinks(content, acc) ==
    IF content = <<>> THEN acc
    ELSE IF \E k \in DOMAIN acc : acc[k].url = Head(content).url
         THEN CollectCompanyLinks(Tail(content), acc)
         ELSE CollectCompanyLinks(Tail(content), Append(acc, Head(content)))

\* visited_company_urls.add(company_url)
MarkVisitedNever(u) == visited
MarkVisited(u) == visited \cup {u}

\* An active advertising agency in London, and the three profiles that differ from
\* it in one field: dissolved, another trade, another town.
Profiles == {Profile(TRUE, S_73110, S_HighSt), Profile(FALSE, S_73110, S_HighSt),
             Profile(TRUE, S_62012, S_HighSt), Profile(TRUE, S_73110, S_Leeds)}
Sites == [CompanyUrls -> Profiles]

\* The sites whose companies differ in status only.
LondonAgencySites ==
    {s \in Sites : \A u \in CompanyUrls : s[u].sic = S_73110 /\ s[u].address = S_HighSt}

\* The Lead built from the profile page of company u: lead.sic_codes = sic,
\* location = address, ideal_customer_profile_match = _compute_icp_score(sic, address).
ProfileLead(u) ==
    [url |-> u, sic_codes |-> site[u].sic, location |-> site[u].address,
     ideal_customer_profile_match |-> ComputeIcpScore(site[u].sic, site[u].address)]

\* State of the crawl when run_scraper is entered.
CrawlStart ==
    /\ cpc = "run_start"
    /\ qi = 0
    /\ submitted = <<>>
    /\ page_num = 0
    /\ page_empty = FALSE
    /\ next_link = FALSE
    /\ rows = <<>>
    /\ visited = {}
    /\ visits = [u \in CompanyUrls |-> 0]
    /\ ch_count = 0
    /\ ch_leads = <<>>
    /\ navs = {}
    /\ ch_failed = FALSE
    /\ abort_cause = "none"
    /\ page_failed_at = 0
    /\ clutch_ran = FALSE

\* The crawl part of the state while another component is analysed.
CrawlIdle ==
    /\ exhaustive_mode = FALSE
    /\ target_industry = <<>>
    /\ site = [u \in CompanyUrls |-> Profile(TRUE, S_73110, S_HighSt)]
    /\ CrawlStart

CrawlInit ==
    /\ exhaustive_mode \in BOOLEAN
    /\ target_industry \in Industries
    /\ CrawlStart

config == <<exhaustive_mode, target_industry, site>>

\* scrape_companies_house: an exception reaches `except Exception` (logged as critical),
\* the finally clause closes page and context, and `return leads` follows.
CriticalFailure(cause) ==
    /\ ch_failed' = TRUE
    /\ abort_cause' = cause
    /\ cpc' = "ch_returned"

\* run_scraper: p.chromium.launch and browser.new_context.
LaunchBrowser(ok) ==
    /\ cpc = "run_start"
    /\ cpc' = IF ok THEN "ch_start" ELSE "raised"
    /\ UNCHANGED <<config, qi, submitted, page_num, page_empty, next_link, rows, visited,
                   visits, ch_count, ch_leads, navs, ch_failed, abort_cause, page_failed_at, clutch_ran>>
    /\ UNCHANGED notCrawl

\* scrape_companies_house: new_context_with_profile and context.new_page, before the try.
OpenSearchPage(ok) ==
    /\ cpc = "ch_start"
    /\ cpc' = IF ok THEN "home" ELSE "raised"
    /\ UNCHANGED <<config, qi, submitted, page_num, page_empty, next_link, rows, visited,
                   visits, ch_count, ch_leads, navs, ch_failed, abort_cause, page_failed_at, clutch_ran>>
    /\ UNCHANGED notCrawl

\* polite_goto(search_page, sel['start_url']) and the cookie banner.
GotoHome(ok) ==
    /\ cpc = "home"
    /\ IF ok
       THEN /\ navs' = navs \cup {PoliteGoto("start")}
            /\ cpc' = IF exhaustive_mode THEN "alpha" ELSE "query"
            /\ UNCHANGED <<ch_failed, abort_cause>>
       ELSE /\ CriticalFailure("home")
            /\ UNCHANGED navs
    /\ UNCHANGED <<config, qi, submitted, page_num, page_empty, next_link, rows, visited,
                   visits, ch_count, ch_leads, page_failed_at, clutch_ran>>
    /\ UNCHANGED notCrawl

\* Exhaustive mode: polite_goto(search_page, alpha_search_url).
GotoAlphabetical(ok) ==
    /\ cpc = "alpha"
    /\ IF ok
       THEN /\ navs' = navs \cup {PoliteGoto("start")}
            /\ cpc' = "query"
            /\ UNCHANGED <<ch_failed, abort_cause>>
       ELSE /\ CriticalFailure("home")
            /\ UNCHANGED navs
    /\ UNCHANGED <<config, qi, submitted, page_num, page_empty, next_link, rows, visited,
                   visits, ch_count, ch_leads, page_failed_at, clutch_ran>>
    /\ UNCHANGED notCrawl

\* `for q in queries` / `for letter in ...`: the next query is submitted. Targeted mode
\* navigates with polite_goto; exhaustive mode fills the search box and clicks submit.
SubmitQuery(ok) ==
    /\ cpc = "query"
    /\ qi < Len(Queries)
    /\ ch_count < TargetCount
    /\ qi' = qi + 1
    /\ submitted' = Append(submitted, qi + 1)
    /\ IF ok
       THEN /\ navs' = navs \cup {IF exhaustive_mode THEN ClickThrough("search")
                                                      ELSE PoliteGoto("search")}
            /\ page_num' = 1
            /\ cpc' = "page"
            /\ UNCHANGED <<ch_failed, abort_cause, page_failed_at>>
       ELSE /\ CriticalFailure("page")
            /\ page_failed_at' = qi + 1
            /\ UNCHANGED <<navs, page_num>>
    /\ UNCHANGED <<config, page_empty, next_link, rows, visited, visits, ch_count, ch_leads, clutch_ran>>
    /\ UNCHANGED notCrawl

\* The loop over the queries ends (list exhausted or target met); finally; return leads.
FinishQueries ==
    /\ cpc = "query"
    /\ qi >= Len(Queries) \/ ch_count >= TargetCount
    /\ cpc' = "ch_returned"
    /\ UNCHANGED <<config, qi, submitted, page_num, page_empty, next_link, rows, visited,
                   visits, ch_count, ch_leads, navs, ch_failed, abort_cause, page_failed_at, clutch_ran>>
    /\ UNCHANGED notCrawl

\* `while len(leads) < target_count` is false on entry: pagination of the query ends.
LeavePagination ==
    /\ cpc = "page"
    /\ ch_count >= TargetCount
    /\ cpc' = "query"
    /\ UNCHANGED <<config, qi, submitted, page_num, page_empty, next_link, rows, visited,
                   visits, ch_count, ch_leads, navs, ch_failed, abort_cause, page_failed_at, clutch_ran>>
    /\ UNCHANGED notCrawl

\* One pass of the pagination loop up to the rows: wait for the page (network idle /
\* result rows), read its rows (exhaustive) or its company links (targeted) and its
\* next link. nl: the page shows an enabled next link.
LoadPage(content, nl, ok) ==
    /\ cpc = "page"
    /\ ch_count < TargetCount
    /\ IF ~ok
       THEN /\ CriticalFailure("page")
            /\ page_failed_at' = qi
            /\ UNCHANGED <<page_empty, next_link, rows>>
       ELSE /\ exhaustive_mode => content # <<>>
            /\ nl => page_num < MaxPages
            /\ page_empty' = (content = <<>>)
            /\ next_link' = nl
            /\ rows' = IF exhaustive_mode THEN content ELSE CollectCompanyLinks(content, <<>>)
            /\ cpc' = IF content = <<>> THEN "query" ELSE "rows"
            /\ UNCHANGED <<ch_failed, abort_cause, page_failed_at>>
    /\ UNCHANGED <<config, qi, submitted, page_num, visited, visits, ch_count, ch_leads, navs, clutch_ran>>
    /\ UNCHANGED notCrawl

\* How one call of _scrape_single_company_profile can go:
\*   page_fails     context.new_page() raises, before the try
\*   goto_fails     polite_goto of the company page or a field extraction raises:
\*                  caught, None
\*   filtered       the page loads; the status, SIC or address check returns None
\*   lead           a Lead, no people tab
\*   lead_people    a Lead, the people tab is clicked, no officer page is opened
\*   lead_officer   a Lead, people tab and an officer detail page
\*   officer_fails  a Lead, people tab, the officer detail visit raises: caught
VisitOutcomes == {"page_fails", "goto_fails", "filtered", "lead", "lead_people",
                  "lead_officer", "officer_fails"}

\* The navigation steps made by a visit with the given outcome.
VisitNavs(outcome) ==
    CASE outcome \in {"page_fails", "goto_fails"} -> {}
      [] outcome \in {"filtered", "lead"} -> {PoliteGoto("company")}
      [] outcome \in {"lead_people", "officer_fails"} ->
            {PoliteGoto("company"), ClickThrough("officers_tab")}
      [] outcome = "lead_officer" ->
            {PoliteGoto("company"), ClickThrough("officers_tab"), PoliteGoto("officer")}

ReturnsLead(outcome) == outcome \in {"lead", "lead_people", "lead_officer", "officer_fails"}

\* The exception of a visit whose page could not be created leaves
\* _scrape_single_company_profile; the exhaustive loop catches it per row, the targeted
\* loop has no handler of its own.
VisitEscapes(outcome) == outcome = "page_fails" /\ ~exhaustive_mode

\* One turn of `for row in rows` / `for company_url in company_links`.
ProcessRow(outcome) ==
    /\ cpc = "rows"
    /\ rows # <<>>
    /\ LET r == Head(rows) IN
       IF ch_count >= TargetCount
       THEN \* break
            /\ rows' = <<>>
            /\ UNCHANGED <<cpc, visited, visits, ch_count, ch_leads, navs, ch_failed, abort_cause>>
       ELSE IF (exhaustive_mode /\ ~r.active) \/ r.url \in visited
       THEN \* continue
            /\ rows' = Tail(rows)
            /\ UNCHANGED <<cpc, visited, visits, ch_count, ch_leads, navs, ch_failed, abort_cause>>
       ELSE /\ outcome \notin {"page_fails", "goto_fails"} =>
                   (outcome = "filtered" <=> PreFilter(site[r.url]) # "pass")
            /\ visited' = MarkVisited(r.url)
            /\ visits' = [visits EXCEPT ![r.url] = @ + 1]
            /\ IF VisitEscapes(outcome)
               THEN /\ CriticalFailure("visit")
                    /\ rows' = <<>>
                    /\ UNCHANGED <<ch_count, ch_leads, navs>>
               ELSE /\ rows' = Tail(rows)
                    /\ navs' = navs \cup VisitNavs(outcome)
                    /\ ch_count' = IF ReturnsLead(outcome) THEN ch_count + 1 ELSE ch_count
                    /\ ch_leads' = IF ReturnsLead(outcome)
                                   THEN Append(ch_leads, ProfileLead(r.url)) ELSE ch_leads
                    /\ UNCHANGED <<cpc, ch_failed, abort_cause>>
    /\ UNCHANGED <<config, qi, submitted, page_num, page_empty, next_link, page_failed_at,
                   clutch_ran>>
    /\ UNCHANGED notCrawl

\* After the rows of a page: targeted mode stops when the target is met; both modes stop
\* when there is no enabled next link; otherwise the next link is clicked.
Paginate(ok) ==
    /\ cpc = "rows"
    /\ rows = <<>>
    /\ IF (~exhaustive_mode /\ ch_count >= TargetCount) \/ ~next_link
       THEN /\ cpc' = "query"
            /\ UNCHANGED <<page_num, navs, ch_failed, abort_cause, page_failed_at>>
       ELSE IF ok
       THEN /\ navs' = navs \cup {ClickThrough("next")}
            /\ page_num' = page_num + 1
            /\ cpc' = "page"
            /\ UNCHANGED <<ch_failed, abort_cause, page_failed_at>>
       ELSE /\ CriticalFailure("page")
            /\ page_failed_at' = qi
            /\ UNCHANGED <<page_num, navs>>
    /\ UNCHANGED <<config, qi, submitted, page_empty, next_link, rows, visited, visits,
                   ch_count, ch_leads, clutch_ran>>
    /\ UNCHANGED notCrawl

\* run_scraper: all_leads.extend(ch_leads), then context.new_page() for the directory.
OpenClutchPage(ok) ==
    /\ cpc = "ch_returned"
    /\ cpc' = IF ok THEN "clutch" ELSE "raised"
    /\ UNCHANGED <<config, qi, submitted, page_num, page_empty, next_link, rows, visited,
                   visits, ch_count, ch_leads, navs, ch_failed, abort_cause, page_failed_at, clutch_ran>>
    /\ UNCHANGED notCrawl

\* run_scraper: gather(scrape_clutch(page), return_exceptions=True); the browser is closed.
ScrapeClutch ==
    /\ cpc = "clutch"
    /\ clutch_ran' = TRUE
    /\ cpc' = "src_done"
    /\ UNCHANGED <<config, qi, submitted, page_num, page_empty, next_link, rows, visited,
                   visits, ch_count, ch_leads, navs, ch_failed, abort_cause, page_failed_at>>
    /\ UNCHANGED notCrawl

CrawlNext ==
    \/ \E ok \in BOOLEAN : LaunchBrowser(ok)
    \/ \E ok \in BOOLEAN : OpenSearchPage(ok)
    \/ \E ok \in BOOLEAN : GotoHome(ok)
    \/ \E ok \in BOOLEAN : GotoAlphabetical(ok)
    \/ \E ok \in BOOLEAN : SubmitQuery(ok)
    \/ FinishQueries
    \/ LeavePagination
    \/ \E content \in PageContents, nl, ok \in BOOLEAN : LoadPage(content, nl, ok)
    \/ \E outcome \in VisitOutcomes : ProcessRow(outcome)
    \/ \E ok \in BOOLEAN : Paginate(ok)
    \/ \E ok \in BOOLEAN : OpenClutchPage(ok)
    \/ ScrapeClutch

-----------------------------------------------------------------------------
\* _merge_selectors.

\* JSON values: a string, a list of selector strings, or a mapping (dict) from keys to
\* values. A mapping is a function over the keys it has.
Str(x) == [t |-> "str", v |-> x]
List(xs) == [t |-> "list", v |-> xs]
Dict(f) == [t |-> "dict", v |-> f]

IsDict(x) == x.t = "dict"

SelectorKeys == {"a", "b"}

\* Leaves of an override file: a string, an empty list, a one-selector list, a
\* two-selector list.
LoadedLeaves == {Str("x"), List(<<>>), List(<<"s3">>), List(<<"s3", "s4">>)}

\* Leaves of the default table: a string or a prioritised list of two selectors.
DefaultLeaves == {Str("d"), List(<<"s1", "s2">>)}

\* The mappings with keys among SelectorKeys and values in vals.
Mappings(vals) == UNION {[ks -> vals] : ks \in SUBSET SelectorKeys}

\* Field groups (mappings of leaves) and tables (mappings of leaves and field groups).
LoadedTables == Mappings(LoadedLeaves \cup {Dict(f) : f \in Mappings(LoadedLeaves)})
DefaultTables == Mappings(DefaultLeaves \cup {Dict(f) : f \in Mappings(DefaultLeaves)})

\* _merge_selectors(loaded, default) on the mappings themselves.
RECURSIVE MergeSelectors(_, _)
MergeShallow(l, d) == [k \in DOMAIN d \cup DOMAIN l |-> IF k \in DOMAIN l THEN l[k] ELSE d[k]]
MergeOverrideOnly(l, d) == l
MergeSelectors(l, d) ==
    [k \in DOMAIN d \cup DOMAIN l |->
        IF k \in DOMAIN d
        THEN IF k \in DOMAIN l
             THEN IF IsDict(d[k]) /\ IsDict(l[k])
                  THEN Dict(MergeSelectors(l[k].v, d[k].v))
                  ELSE l[k]
             ELSE d[k]
        ELSE l[k]]

\* What `merged` holds before and after the call.
NotMerged == [done |-> FALSE, v |-> <<>>]
MergeResult(m) == [done |-> TRUE, v |-> m]

MergeIdle ==
    /\ loaded = <<>>
    /\ default = <<>>
    /\ merged = NotMerged

MergeInit ==
    /\ loaded \in LoadedTables
    /\ default \in DefaultTables
    /\ merged = NotMerged

\* _load_selectors: return self._merge_selectors(data, defaults)
CallMerge ==
    /\ merged = NotMerged
    /\ merged' = MergeResult(MergeSelectors(loaded, default))
    /\ UNCHANGED <<loaded, default, notMerge>>

MergeNext == CallMerge

-----------------------------------------------------------------------------
\* _extract_sic_codes_list as a function of its text.

\* Bound: the number of pieces a text is made of.
MaxTokens == 3

S_sep == <<",", " ">>
S_and == <<" ", "a", "n", "d", " ">>
S_x == <<"x">>
S_Nature == <<"N", "a", "t", "u", "r", "e", " ", "o", "f", " ", "b", "u", "s", "i", "n",
              "e", "s", "s", ":", " ">>

\* The pieces of the texts: codes, runs of digits that are no code when glued to a
\* neighbour, separators, a label, and the placeholder.
SicTokens == {S_73110, S_62012, S_sep, S_and, S_x, S_Nature, S_Unknown}

RECURSIVE Concat(_)
Concat(parts) == IF parts = <<>> THEN <<>> ELSE Head(parts) \o Concat(Tail(parts))

\* 'Nature of business: 73110, 62012 and 73110'
S_example == Concat(<<S_Nature, S_73110, S_sep, S_62012, S_and, S_73110>>)

SicListTexts ==
    {Concat(parts) : parts \in UNION {[1..n -> SicTokens] : n \in 0..MaxTokens}}
        \cup {S_example}

\* ", ".join(extracted_codes)
RECURSIVE JoinCodes(_)
JoinCodes(codes) ==
    IF codes = <<>> THEN <<>>
    ELSE IF Len(codes) = 1 THEN codes[1]
    ELSE codes[1] \o S_sep \o JoinCodes(Tail(codes))

NotCalled == [done |-> FALSE, v |-> <<>>]
ReturnedValue(v) == [done |-> TRUE, v |-> v]

SicListIdle == sic_input = <<>> /\ sic_list = NotCalled

SicListInit == sic_input \in SicListTexts /\ sic_list = NotCalled

CallExtractSicCodesList ==
    /\ sic_list = NotCalled
    /\ sic_list' = ReturnedValue(ExtractSicCodesList(sic_input))
    /\ UNCHANGED <<sic_input, notSicList>>

SicListNext == CallExtractSicCodesList

-----------------------------------------------------------------------------
\* _extract_sic on one company page.

\* Bound: the number of elements a selector's locator matches.
MaxElements == 2

SicSelectors == {"s1", "s2"}
SelectorConfigs == {<<>>, <<"s1">>, <<"s1", "s2">>}

\* What el.inner_text() gives: a text, or an exception (element gone, timeout).
ElementTexts == {S_73110, S_62012, S_x}
InnerTexts ==
    {[raises |-> FALSE, text |-> t] : t \in ElementTexts}
        \cup {[raises |-> TRUE, text |-> <<>>]}

\* What page.locator(sel).all() gives: the elements, or an exception.
LocatorOutcomes ==
    {[raises |-> FALSE, els |-> els] :
        els \in UNION {[1..n -> InnerTexts] : n \in 0..MaxElements}}
        \cup {[raises |-> TRUE, els |-> <<>>]}

\* What the label gives: no dt (count 0), the dd's text, or an exception.
NoLabel == [count |-> 0, raises |-> FALSE, text |-> <<>>]
LabelOutcomes ==
    {NoLabel, [count |-> 1, raises |-> TRUE, text |-> <<>>]}
        \cup {[count |-> 1, raises |-> FALSE, text |-> t] : t \in ElementTexts}

\* re.search(r'\b\d{5}\b', text)
HasSicCode(text) == \E i \in 1..Len(text) : SicMatchAt(text, i)

\* for el in elements: the texts appended to sic_codes_text_parts until the loop ends
\* or an inner_text raises; what was appended before the exception stays appended.
RECURSIVE ScanElements(_, _)
ScanElements(els, parts) ==
    IF els = <<>> THEN [parts |-> parts, raised |-> FALSE]
    ELSE IF Head(els).raises THEN [parts |-> parts, raised |-> TRUE]
    ELSE ScanElements(Tail(els),
                      IF HasSicCode(Head(els).text) THEN Append(parts, Head(els).text)
                      ELSE parts)

\* for sel in sic_selector_configs: try ... if sic_codes_text_parts: break ... except
RECURSIVE TrySelectors(_, _, _)
TrySelectors(sels, parts, consulted) ==
    IF sels = <<>> THEN [parts |-> parts, consulted |-> consulted]
    ELSE LET sel == Head(sels)
             seen == Append(consulted, sel)
             scan == IF sic_page[sel].raises
                     THEN [parts |-> parts, raised |-> TRUE]
                     ELSE ScanElements(sic_page[sel].els, parts)
         IN IF ~scan.raised /\ scan.parts # <<>>
            THEN [parts |-> scan.parts, consulted |-> seen]
            ELSE TrySelectors(Tail(sels), scan.parts, seen)

\* The dt + dd fallback, taken when no text part was collected.
LabelParts ==
    IF sic_label.count > 0 /\ ~sic_label.raises /\ HasSicCode(sic_label.text)
    THEN <<sic_label.text>> ELSE <<>>

\* "\n".join(sic_codes_text_parts)
RECURSIVE JoinLines(_)
JoinLines(parts) ==
    IF parts = <<>> THEN <<>>
    ELSE IF Len(parts) = 1 THEN parts[1]
    ELSE parts[1] \o <<"\n">> \o JoinLines(Tail(parts))

\* The text _extract_sic returns for the text parts it collected.
SicOfParts(parts) ==
    LET extracted_codes == ExtractSicCodesList(JoinLines(parts)) IN
    IF parts # <<>> /\ extracted_codes # <<>> THEN JoinCodes(extracted_codes)
    ELSE S_Unknown

ExtractSicIdle ==
    /\ sic_selector_configs = <<>>
    /\ sic_page = <<>>
    /\ sic_label = NoLabel
    /\ sic_consulted = <<>>
    /\ sic_code = NotCalled

ExtractSicInit ==
    /\ sic_selector_configs \in SelectorConfigs
    /\ sic_page \in [SicSelectors -> LocatorOutcomes]
    /\ sic_label \in LabelOutcomes
    /\ sic_consulted = <<>>
    /\ sic_code = NotCalled

CallExtractSic ==
    /\ sic_code = NotCalled
    /\ LET tried == TrySelectors(sic_selector_configs, <<>>, <<>>)
           parts == IF tried.parts = <<>> THEN LabelParts ELSE tried.parts
       IN /\ sic_consulted' = tried.consulted
          /\ sic_code' = ReturnedValue(SicOfParts(parts))
    /\ UNCHANGED <<sic_selector_configs, sic_page, sic_label, notExtractSic>>

ExtractSicNext == CallExtractSic

-----------------------------------------------------------------------------
\* Website discovery: step 1 of enrich_lead_data and _guess_website_via_search.

\* Bound: the number of result links on a search results page.
MaxResults == 2

H_registry == <<"f", "i", "n", "d", "-", "a", "n", "d", "-", "u", "p", "d", "a", "t", "e",
                ".", "c", "o", "m", "p", "a", "n", "y", "-", "i", "n", "f", "o", "r", "m",
                "a", "t", "i", "o", "n", ".", "s", "e", "r", "v", "i", "c", "e", ".", "g",
                "o", "v", ".", "u", "k">>
H_companieshouse == <<"c", "o", "m", "p", "a", "n", "i", "e", "s", "h", "o", "u", "s", "e",
                      ".", "g", "o", "v", ".", "u", "k">>

\* bad_hosts of _clean_candidate_url
BadHosts ==
    {H_registry, H_companieshouse,
     <<"l", "i", "n", "k", "e", "d", "i", "n", ".", "c", "o", "m">>,
     <<"f", "a", "c", "e", "b", "o", "o", "k", ".", "c", "o", "m">>,
     <<"t", "w", "i", "t", "t", "e", "r", ".", "c", "o", "m">>,
     <<"x", ".", "c", "o", "m">>,
     <<"i", "n", "s", "t", "a", "g", "r", "a", "m", ".", "c", "o", "m">>,
     <<"g", "l", "a", "s", "s", "d", "o", "o", "r", ".", "c", "o", "m">>,
     <<"y", "e", "l", "l", ".", "c", "o", "m">>,
     <<"m", "a", "p", "s", ".", "g", "o", "o", "g", "l", "e">>,
     <<"c", "r", "u", "n", "c", "h", "b", "a", "s", "e", ".", "c", "o", "m">>,
     <<"c", "o", "m", "p", "a", "n", "y", "c", "h", "e", "c", "k", ".", "c", "o", ".", "u",
       "k">>,
     <<"o", "p", "e", "n", "c", "o", "r", "p", "o", "r", "a", "t", "e", "s", ".", "c", "o",
       "m">>,
     <<"c", "o", "m", "p", "a", "n", "i", "e", "s", "i", "n", "t", "h", "e", "u", "k", ".",
       "c", "o", ".", "u", "k">>,
     <<"b", "i", "n", "g", ".", "c", "o", "m">>,
     <<"d", "u", "c", "k", "d", "u", "c", "k", "g", "o", ".", "c", "o", "m">>}

\* ch_domains of enrich_lead_data
ChDomains == {H_registry, H_companieshouse}

\* A URL as text: the scheme ("" when the text has none) and what follows "://".
Url(scheme, rest) == [scheme |-> scheme, rest |-> rest]
S_https == <<"h", "t", "t", "p", "s">>

\* urlparse(url).netloc of the text after "://": up to the first "/".
RECURSIVE UpToSlash(_)
UpToSlash(s) ==
    IF s = <<>> \/ Head(s) = "/" THEN <<>> ELSE <<Head(s)>> \o UpToSlash(Tail(s))

\* urlparse(url).netloc: empty for a text without scheme.
NetLoc(u) == IF u.scheme = <<>> THEN <<>> ELSE UpToSlash(u.rest)

\* f"{u.scheme}://{u.netloc}"
UrlText(u) == u.scheme \o <<":", "/", "/">> \o u.rest

NoCandidate == [found |-> FALSE, url |-> Url(<<>>, <<>>)]
Candidate(u) == [found |-> TRUE, url |-> u]

\* _clean_candidate_url
CleanCandidateUrl(href) ==
    LET u == IF href.scheme = <<>> THEN Url(S_https, href.rest) ELSE href IN
    IF NetLoc(u) = <<>> THEN NoCandidate
    ELSE IF \E bad \in BadHosts : Contains(bad, NetLoc(u)) THEN NoCandidate
    ELSE Candidate(Url(u.scheme, NetLoc(u)))

\* str.split()[0]: the first whitespace-delimited token (<<>> stands for the IndexError
\* of a text that has none).
RECURSIVE UpToSpace(_)
UpToSpace(s) ==
    IF s = <<>> \/ Head(s) \in Whitespace THEN <<>> ELSE <<Head(s)>> \o UpToSpace(Tail(s))
FirstToken(s) == UpToSpace(LStrip(s))

\* The result links of a search results page, in page order.
Hrefs ==
    {Url(S_https, <<"a", "c", "m", "e", ".", "c", "o", "/", "a", "b", "o", "u", "t">>),
     Url(S_https, <<"o", "t", "h", "e", "r", ".", "i", "o">>),
     Url(S_https, <<"l", "i", "n", "k", "e", "d", "i", "n", ".", "c", "o", "m", "/", "c",
                    "o", "m", "p", "a", "n", "y", "/", "a", "c", "m", "e">>),
     Url(<<>>, <<"a", "c", "m", "e", ".", "c", "o", "/", "a", "b", "o", "u", "t">>),
     Url(<<>>, <<"/", "s", "e", "a", "r", "c", "h">>)}

\* What a search request gives: an exception, a status other than 200, or the links.
SearchRaises == [raises |-> TRUE, status |-> 0, links |-> <<>>]
SearchResponses ==
    {SearchRaises, [raises |-> FALSE, status |-> 429, links |-> <<>>]}
        \cup {[raises |-> FALSE, status |-> 200, links |-> l] :
                  l \in UNION {[1..n -> Hrefs] : n \in 0..MaxResults}}

\* for a in soup.select(selector): the value returned from the loop, NoCandidate when
\* the loop ends without return; raised when company_name.lower().split()[0] fails.
RECURSIVE PickCandidate(_, _)
PickCandidate(links, name) ==
    IF links = <<>> THEN [raised |-> FALSE, c |-> NoCandidate]
    ELSE LET candidate == CleanCandidateUrl(Head(links)) IN
         IF candidate.found /\ FirstToken(LowerStr(name)) = <<>>
         THEN [raised |-> TRUE, c |-> NoCandidate]
         ELSE IF candidate.found /\ Contains(FirstToken(LowerStr(name)),
                                              LowerStr(UrlText(candidate.url)))
         THEN [raised |-> FALSE, c |-> candidate]
         ELSE IF candidate.found THEN [raised |-> FALSE, c |-> candidate]
         ELSE PickCandidate(Tail(links), name)

\* len(queries) * len(engines)
NumSearches ==
    IF company_name = <<>> THEN 0
    ELSE (IF location_hint = <<>> THEN 2 ELSE 3) * 2


\* "Acme Ltd", a blank and the empty name
CompanyNames == {<<"A", "c", "m", "e", " ", "L", "t", "d">>, <<" ">>, <<>>}
\* None, the registry page of the company, a site of its own
Websites ==
    {Url(<<>>, <<>>),
     Url(S_https, H_registry \o <<"/", "c", "o", "m", "p", "a", "n", "y", "/", "1">>),
     Url(S_https, <<"a", "c", "m", "e", ".", "e", "x", "a", "m", "p", "l", "e">>)}
LocationHints == {<<>>, S_London}

NotGuessed == [done |-> FALSE, c |-> NoCandidate]

GuessIdle ==
    /\ website = Url(<<>>, <<>>)
    /\ company_name = <<>>
    /\ location_hint = <<>>
    /\ gpc = "idle"
    /\ searches = 0
    /\ search_page = SearchRaises
    /\ guessed = NotGuessed

GuessInit ==
    /\ website \in Websites
    /\ company_name \in CompanyNames
    /\ location_hint \in LocationHints
    /\ gpc = "enrich"
    /\ searches = 0
    /\ search_page = SearchRaises
    /\ guessed = NotGuessed

\* lead.website is falsy
NoWebsite == website.scheme = <<>> /\ website.rest = <<>>

\* enrich_lead_data: if not lead.website or any(h in website_host for h in ch_domains)
StartDiscovery ==
    /\ gpc = "enrich"
    /\ gpc' = IF NoWebsite \/ \E h \in ChDomains : Contains(h, LowerStr(NetLoc(website)))
              THEN "search" ELSE "harvest"
    /\ UNCHANGED <<website, company_name, location_hint, searches, search_page, guessed,
                   notGuess>>

\* One turn of the loops over queries and engines: the request and what is made of the
\* response; a candidate returned becomes lead.website.
Search(resp) ==
    /\ gpc = "search"
    /\ searches < NumSearches
    /\ searches' = searches + 1
    /\ search_page' = resp
    /\ LET picked == IF resp.raises \/ resp.status # 200
                     THEN [raised |-> FALSE, c |-> NoCandidate]
                     ELSE PickCandidate(resp.links, company_name)
       IN IF picked.c.found
          THEN /\ guessed' = [done |-> TRUE, c |-> picked.c]
               /\ website' = picked.c.url
               /\ gpc' = "harvest"
          ELSE UNCHANGED <<guessed, website, gpc>>
    /\ UNCHANGED <<company_name, location_hint, notGuess>>

\* The loops end without a candidate: return None, lead.website stays as it was.
NoGuess ==
    /\ gpc = "search"
    /\ searches = NumSearches
    /\ guessed' = [done |-> TRUE, c |-> NoCandidate]
    /\ gpc' = "harvest"
    /\ UNCHANGED <<website, company_name, location_hint, searches, search_page, notGuess>>

GuessNext ==
    \/ StartDiscovery
    \/ \E resp \in SearchResponses : Search(resp)
    \/ NoGuess

-----------------------------------------------------------------------------
\* _choose_ceo_from_officers as a function of the officer list.

\* Bound: the number of officers of a company.
MaxOfficers == 2


\* preferred, in the order of the list
Preferred ==
    <<<<"c", "h", "i", "e", "f", " ", "e", "x", "e", "c", "u", "t", "i", "v", "e", " ",
        "o", "f", "f", "i", "c", "e", "r">>,
      <<"c", "h", "i", "e", "f", " ", "e", "x", "e", "c", "u", "t", "i", "v", "e">>,
      <<"c", "e", "o">>,
      <<"m", "a", "n", "a", "g", "i", "n", "g", " ", "d", "i", "r", "e", "c", "t", "o",
        "r">>,
      <<"d", "i", "r", "e", "c", "t", "o", "r">>,
      <<"o", "w", "n", "e", "r">>,
      <<"f", "o", "u", "n", "d", "e", "r">>,
      <<"p", "r", "o", "p", "r", "i", "e", "t", "o", "r">>>>

\* The roles and names the officer cards show.
\* "CEO", "Managing Director", "Director", "Owner", "Secretary"
OfficerRoles ==
    {<<"C", "E", "O">>,
     <<"M", "a", "n", "a", "g", "i", "n", "g", " ", "D", "i", "r", "e", "c", "t", "o", "r">>,
     <<"D", "i", "r", "e", "c", "t", "o", "r">>,
     <<"O", "w", "n", "e", "r">>,
     <<"S", "e", "c", "r", "e", "t", "a", "r", "y">>}
\* "Ann", "Bob " and the empty name
OfficerNames == {<<"A", "n", "n">>, <<"B", "o", "b", " ">>, <<>>}

Officers == [role : OfficerRoles, name : OfficerNames]
OfficerLists == UNION {[1..n -> Officers] : n \in 0..MaxOfficers}

\* return None / return a name
NoName == [none |-> TRUE, name |-> <<>>]
Name(n) == [none |-> FALSE, name |-> n]

\* any(p in role for p in preferred) and name
RoleIsPreferred(o) ==
    /\ \E i \in DOMAIN Preferred : Contains(Preferred[i], LowerStr(o.role))
    /\ Strip(o.name) # <<>>

\* for o in officers: return the name of the first officer whose role has a keyword
RECURSIVE FirstPreferred(_)
FirstPreferred(os) ==
    IF os = <<>> THEN NoName
    ELSE IF RoleIsPreferred(Head(os)) THEN Name(Strip(Head(os).name))
    ELSE FirstPreferred(Tail(os))

\* _choose_ceo_from_officers
ChooseCeoFromOfficers(os) ==
    IF os = <<>> THEN NoName
    ELSE IF ~FirstPreferred(os).none THEN FirstPreferred(os)
    ELSE Name(os[1].name)

NotChosen == [done |-> FALSE, v |-> NoName]

CeoIdle == officer_list = <<>> /\ chosen_ceo = NotChosen

CeoInit == officer_list \in OfficerLists /\ chosen_ceo = NotChosen

CallChooseCeo ==
    /\ chosen_ceo = NotChosen
    /\ chosen_ceo' = [done |-> TRUE, v |-> ChooseCeoFromOfficers(officer_list)]
    /\ UNCHANGED <<officer_list, notCeo>>

CeoNext == CallChooseCeo

-----------------------------------------------------------------------------
\* Contact harvesting over HTTP: _enrich_via_http, _get_with_robots, _try_paths.

\* paths of _try_paths: the homepage and the sub-paths, in the order they are tried.
TryPaths == <<"", "/contact", "/contact-us", "/about", "/about-us", "/services">>

\* What the robots.txt check comes to: can_fetch says yes or no, or the check raises.
RobotsVerdicts == {"allow", "disallow", "raises"}

\* _respect_robots_allowed
RobotsIgnored(verdict) == TRUE
RespectRobotsAllowed(verdict) ==
    IF ~respect_robots THEN TRUE
    ELSE IF verdict = "raises" THEN TRUE
    ELSE verdict = "allow"

\* What session.get and raise_for_status come to: a page, an empty body, a
\* requests.RequestException (bad status included), or an exception of another kind.
GetOutcomes == {"html", "empty", "request_exception", "other_exception"}

\* What a page holds for _harvest_contacts_from_html.
PageFinds == {"none", "phone", "email", "both"}

\* phone_number, email: the field is set; phone_value, email_value: the page (index in
\* _try_paths) whose first valid number / address the field holds, 0 for None.
NoContacts == [phone_number |-> FALSE, email |-> FALSE, phone_value |-> 0, email_value |-> 0,
               phone_verified |-> FALSE, email_verified |-> FALSE]

\* _harvest_contacts_from_html on the page of path k: a phone (an email) is looked for
\* while the lead has none, and stored together with its verified flag.
HarvestContactsOverwrite(c, found, k) ==
    LET newPhone == found \in {"phone", "both"}
        newEmail == found \in {"email", "both"} IN
    [phone_number |-> c.phone_number \/ newPhone,
     email |-> c.email \/ newEmail,
     phone_value |-> IF newPhone THEN k ELSE c.phone_value,
     email_value |-> IF newEmail THEN k ELSE c.email_value,
     phone_verified |-> c.phone_verified \/ newPhone,
     email_verified |-> c.email_verified \/ newEmail]
HarvestContacts(c, found, k) ==
    LET newPhone == ~c.phone_number /\ found \in {"phone", "both"}
        newEmail == ~c.email /\ found \in {"email", "both"} IN
    [phone_number |-> c.phone_number \/ newPhone,
     email |-> c.email \/ newEmail,
     phone_value |-> IF newPhone THEN k ELSE c.phone_value,
     email_value |-> IF newEmail THEN k ELSE c.email_value,
     phone_verified |-> c.phone_verified \/ newPhone,
     email_verified |-> c.email_verified \/ newEmail]

\* if getattr(lead, "email", None) and getattr(lead, "phone_number", None): break
BothFoundNever(c) == FALSE
BothFound(c) == c.email /\ c.phone_number

HttpIdle ==
    /\ respect_robots = TRUE
    /\ has_website = FALSE
    /\ contacts = NoContacts
    /\ harvested = <<>>
    /\ hpc = "idle"
    /\ path_i = 0
    /\ disallowed = {}
    /\ wait_calls = <<>>
    /\ fetched = <<>>

HttpInit ==
    /\ respect_robots \in BOOLEAN
    /\ has_website \in BOOLEAN
    /\ contacts = NoContacts
    /\ harvested = <<>>
    /\ hpc = "start"
    /\ path_i = 0
    /\ disallowed = {}
    /\ wait_calls = <<>>
    /\ fetched = <<>>

\* _enrich_via_http: if not lead.website: return lead
EnterEnrichViaHttp ==
    /\ hpc = "start"
    /\ IF has_website THEN hpc' = "loop" /\ path_i' = 1
       ELSE hpc' = "returned" /\ path_i' = path_i
    /\ UNCHANGED <<respect_robots, has_website, contacts, harvested, disallowed, wait_calls,
                   fetched, notHttp>>

\* One turn of the loop over _try_paths: _get_with_robots(u), the harvest when a page
\* came back, and the early exit.
TryPath(verdict, outcome, found) ==
    /\ hpc = "loop"
    /\ path_i <= Len(TryPaths)
    /\ disallowed' = IF verdict = "disallow" THEN disallowed \cup {path_i} ELSE disallowed
    /\ IF ~RespectRobotsAllowed(verdict)
       THEN /\ path_i' = path_i + 1
            /\ UNCHANGED <<wait_calls, fetched, contacts, harvested, hpc>>
       ELSE /\ wait_calls' = Append(wait_calls, path_i)
            /\ fetched' = Append(fetched, path_i)
            /\ CASE outcome = "other_exception" ->
                        hpc' = "raised" /\ UNCHANGED <<contacts, harvested, path_i>>
                 [] outcome \in {"request_exception", "empty"} ->
                        path_i' = path_i + 1 /\ UNCHANGED <<contacts, harvested, hpc>>
                 [] outcome = "html" ->
                        /\ contacts' = HarvestContacts(contacts, found, path_i)
                        /\ harvested' = Append(harvested, [path |-> path_i, found |-> found])
                        /\ IF BothFound(contacts')
                           THEN hpc' = "returned" /\ path_i' = path_i
                           ELSE hpc' = hpc /\ path_i' = path_i + 1
    /\ UNCHANGED <<respect_robots, has_website, notHttp>>

\* The loop is through: return lead
LeaveLoop ==
    /\ hpc = "loop"
    /\ path_i > Len(TryPaths)
    /\ hpc' = "returned"
    /\ UNCHANGED <<respect_robots, has_website, contacts, harvested, path_i, disallowed,
                   wait_calls, fetched, notHttp>>

HttpNext ==
    \/ EnterEnrichViaHttp
    \/ \E verdict \in RobotsVerdicts, outcome \in GetOutcomes, found \in PageFinds :
          TryPath(verdict, outcome, found)
    \/ LeaveLoop

-----------------------------------------------------------------------------
\* _scrape_single_company_profile, after the Lead is built: the officers section.

\* Bound: the officer cards on one people page.
MaxCards == 2

\* An officer card: whether its status reads active, whether its name is a link.
Cards == [active : BOOLEAN, href : BOOLEAN]
CardLists == UNION {[1..n -> Cards] : n \in 0..MaxCards}

\* officer_dict of card i: name, role, status and link always; secondary says how much
\* of the detail page went into it: "none", "fields" (dob ... appointed_on) or "full"
\* (the appointments as well).
Officer(i, secondary) ==
    [card |-> i, name |-> TRUE, role |-> TRUE, status |-> TRUE, secondary |-> secondary]

\* How the people tab can go: no enabled tab (else branch), the click, the load or the
\* card list raises, or the cards are read.
TabOutcomes == {"no_tab", "tab_fails", "cards"}

\* How one card can go:
\*   card_raises    reading the card's status or name raises
\*   page_fails     context.new_page() for the detail page raises
\*   goto_fails     polite_goto of the detail page raises
\*   detail_fails   the fields are read and stored, reading the appointments raises
\*   close_fails    the detail page is read, officer_detail_page.close() raises
\*   ok             the detail page is read and closed
CardOutcomes == {"card_raises", "page_fails", "goto_fails", "detail_fails", "close_fails",
                 "ok"}

\* The outcomes in which the visit to the officer's detail page fails.
VisitFailures == {"page_fails", "goto_fails", "detail_fails", "close_fails"}

\* The inner handler `except Exception` of the detail visit catches what polite_goto and
\* the extraction raise; new_page is called before its try, close in its finally.
CaughtByDetailHandler(outcome) == outcome \in {"goto_fails", "detail_fails"}

\* active_officers after one turn of `for card in cards`.
AfterCard(i, card, outcome) ==
    IF outcome = "card_raises" \/ ~card.active THEN active_officers
    ELSE IF ~card.href THEN Append(active_officers, Officer(i, "none"))
    ELSE IF outcome = "ok" THEN Append(active_officers, Officer(i, "full"))
    ELSE IF CaughtByDetailHandler(outcome)
         THEN Append(active_officers,
                     Officer(i, IF outcome = "goto_fails" THEN "none" ELSE "fields"))
    ELSE active_officers

NotReturned == [done |-> FALSE, officers |-> <<>>]

OfficersIdle ==
    /\ opc = "idle"
    /\ cards = <<>>
    /\ card_i = 0
    /\ active_officers = <<>>
    /\ detail_failed = {}
    /\ tab_failed = FALSE
    /\ returned_lead = NotReturned

\* The Lead has been built; active_officers = [].
OfficersInit ==
    /\ opc = "tab"
    /\ cards \in CardLists
    /\ card_i = 0
    /\ active_officers = <<>>
    /\ detail_failed = {}
    /\ tab_failed = FALSE
    /\ returned_lead = NotReturned

\* The people tab: count, is_enabled, click, wait_for_load_state, the card list.
OpenPeopleTab(outcome) ==
    /\ opc = "tab"
    /\ outcome = "no_tab" => cards = <<>>
    /\ opc' = IF outcome = "cards" THEN "cards" ELSE "return"
    /\ tab_failed' = (outcome = "tab_fails")
    /\ card_i' = IF outcome = "cards" THEN 1 ELSE 0
    /\ UNCHANGED <<cards, active_officers, detail_failed, returned_lead>>
    /\ UNCHANGED notOfficers

\* One turn of `for card in cards`.
ProcessCard(outcome) ==
    /\ opc = "cards"
    /\ card_i <= Len(cards)
    /\ active_officers' = AfterCard(card_i, cards[card_i], outcome)
    /\ detail_failed' =
          IF cards[card_i].active /\ cards[card_i].href /\ outcome \in VisitFailures
          THEN detail_failed \cup {card_i} ELSE detail_failed
    /\ card_i' = card_i + 1
    /\ UNCHANGED <<opc, cards, tab_failed, returned_lead>>
    /\ UNCHANGED notOfficers

\* The loop over the cards is over.
LeaveCards ==
    /\ opc = "cards"
    /\ card_i > Len(cards)
    /\ opc' = "return"
    /\ UNCHANGED <<cards, card_i, active_officers, detail_failed, tab_failed, returned_lead>>
    /\ UNCHANGED notOfficers

\* lead.officers = active_officers; the ICP score; return lead.
ReturnProfileLead ==
    /\ opc = "return"
    /\ returned_lead' = [done |-> TRUE, officers |-> active_officers]
    /\ opc' = "returned"
    /\ UNCHANGED <<cards, card_i, active_officers, detail_failed, tab_failed>>
    /\ UNCHANGED notOfficers

OfficersNext ==
    \/ \E outcome \in TabOutcomes : OpenPeopleTab(outcome)
    \/ \E outcome \in CardOutcomes : ProcessCard(outcome)
    \/ LeaveCards
    \/ ReturnProfileLead

-----------------------------------------------------------------------------
\* Specifications.

InitRL == RLInit /\ OfficersIdle /\ HttpIdle /\ CeoIdle /\ GuessIdle /\ ExtractSicIdle /\ SicListIdle /\ target_sic_codes = {} /\ RunInit /\ LeadInit /\ IcpInit /\ CrawlIdle /\ MergeIdle
SpecRL == InitRL /\ [][RLNext]_vars

SpecRLLive == InitRL /\ [][RLLiveNext]_vars /\ RLFairness

InitRun ==
    /\ RunInit
    /\ target_sic_codes \in TargetSets
    /\ target_location \in RunLocations
    /\ icp_sic = <<>> /\ icp_addr = <<>> /\ icp_score = -1
    /\ RLInit /\ OfficersIdle /\ HttpIdle /\ CeoIdle /\ GuessIdle /\ ExtractSicIdle /\ SicListIdle /\ LeadInit /\ CrawlIdle /\ MergeIdle
SpecRun == InitRun /\ [][RunNext]_vars

InitLead == LeadInit /\ target_sic_codes \in TargetSets /\ RLInit /\ OfficersIdle /\ HttpIdle /\ CeoIdle /\ GuessIdle /\ ExtractSicIdle /\ SicListIdle /\ RunInit /\ IcpInit /\ CrawlIdle /\ MergeIdle
SpecLead == InitLead /\ [][LeadNext]_vars

InitIcp ==
    /\ target_sic_codes \in TargetSets
    /\ target_location \in TargetLocations
    /\ icp_sic \in IcpSicTexts
    /\ icp_addr \in IcpAddresses
    /\ icp_score = -1
    /\ RLInit /\ OfficersIdle /\ HttpIdle /\ CeoIdle /\ GuessIdle /\ ExtractSicIdle /\ SicListIdle /\ RunInit /\ LeadInit /\ CrawlIdle /\ MergeIdle
SpecIcp == InitIcp /\ [][IcpNext]_vars

InitCrawl ==
    /\ CrawlInit
    /\ site \in LondonAgencySites
    /\ target_location \in CrawlLocations
    /\ icp_sic = <<>> /\ icp_addr = <<>> /\ icp_score = -1
    /\ target_sic_codes = {}
    /\ RLInit /\ OfficersIdle /\ HttpIdle /\ CeoIdle /\ GuessIdle /\ ExtractSicIdle /\ SicListIdle /\ RunInit /\ LeadInit /\ MergeIdle
SpecCrawl == InitCrawl /\ [][CrawlNext]_vars

\* The crawl with target codes and a target location configured, over every site.
InitCrawlFilter ==
    /\ exhaustive_mode \in BOOLEAN
    /\ target_industry = S_seo
    /\ site \in Sites
    /\ CrawlStart
    /\ target_location = S_London
    /\ icp_sic = <<>> /\ icp_addr = <<>> /\ icp_score = -1
    /\ target_sic_codes = {S_73110}
    /\ RLInit /\ OfficersIdle /\ HttpIdle /\ CeoIdle /\ GuessIdle /\ ExtractSicIdle /\ SicListIdle /\ RunInit /\ LeadInit /\ MergeIdle
SpecCrawlFilter == InitCrawlFilter /\ [][CrawlNext]_vars

InitMerge ==
    /\ MergeInit
    /\ target_sic_codes = {}
    /\ RLInit /\ OfficersIdle /\ HttpIdle /\ CeoIdle /\ GuessIdle /\ ExtractSicIdle /\ SicListIdle /\ RunInit /\ LeadInit /\ IcpInit /\ CrawlIdle
SpecMerge == InitMerge /\ [][MergeNext]_vars

InitSicList ==
    /\ SicListInit
    /\ target_sic_codes = {}
    /\ RLInit /\ OfficersIdle /\ HttpIdle /\ CeoIdle /\ GuessIdle /\ ExtractSicIdle /\ RunInit /\ LeadInit /\ IcpInit /\ CrawlIdle /\ MergeIdle
SpecSicList == InitSicList /\ [][SicListNext]_vars

InitExtractSic ==
    /\ ExtractSicInit
    /\ target_sic_codes = {}
    /\ RLInit /\ OfficersIdle /\ HttpIdle /\ CeoIdle /\ GuessIdle /\ RunInit /\ LeadInit /\ IcpInit /\ CrawlIdle /\ MergeIdle /\ SicListIdle
SpecExtractSic == InitExtractSic /\ [][ExtractSicNext]_vars

InitGuess ==
    /\ GuessInit
    /\ target_sic_codes = {}
    /\ RLInit /\ OfficersIdle /\ HttpIdle /\ CeoIdle /\ RunInit /\ LeadInit /\ IcpInit /\ CrawlIdle /\ MergeIdle /\ SicListIdle
    /\ ExtractSicIdle
SpecGuess == InitGuess /\ [][GuessNext]_vars

InitCeo ==
    /\ CeoInit
    /\ target_sic_codes = {}
    /\ RLInit /\ OfficersIdle /\ HttpIdle /\ RunInit /\ LeadInit /\ IcpInit /\ CrawlIdle /\ MergeIdle /\ SicListIdle
    /\ ExtractSicIdle /\ GuessIdle
SpecCeo == InitCeo /\ [][CeoNext]_vars

InitHttp ==
    /\ HttpInit
    /\ target_sic_codes = {}
    /\ RLInit /\ OfficersIdle /\ RunInit /\ LeadInit /\ IcpInit /\ CrawlIdle /\ MergeIdle /\ SicListIdle
    /\ ExtractSicIdle /\ GuessIdle /\ CeoIdle
SpecHttp == InitHttp /\ [][HttpNext]_vars

InitOfficers ==
    /\ OfficersInit
    /\ target_sic_codes = {}
    /\ RLInit /\ RunInit /\ LeadInit /\ IcpInit /\ CrawlIdle /\ MergeIdle /\ SicListIdle
    /\ ExtractSicIdle /\ GuessIdle /\ CeoIdle /\ HttpIdle
SpecOfficers == InitOfficers /\ [][OfficersNext]_vars

-----------------------------------------------------------------------------
\* Claims about the rate limiter, checked under SpecRL.

RealDomains == {d \in Domains : d # ""}

OnDomain(t, d) == turl[t] # NoUrl /\ Domain(turl[t]) = d

\* C1: for every domain, the instants at which two consecutive calls of wait()
\* return are at least min_delay apart, whatever the number of concurrent callers.
C1_ReturnsSpaced == \A d \in Domains : minGap[d] = -1 \/ minGap[d] >= MinDelay

\* Two calls for one domain have both returned while their callers were active
\* at the same time.
C1_Witness ==
    \E d \in RealDomains :
        /\ minGap[d] # -1
        /\ Cardinality({t \in Tasks : OnDomain(t, d) /\ tpc[t] \in {"ready", "in_flight"}}) >= 2

\* C2: at every moment at most one request per domain is in flight.
C2_OneInFlight == \A d \in RealDomains : Cardinality(InFlight(d)) <= 1

\* C3: a request to a domain starts only when no request to it is outstanding and at
\* least min_delay has elapsed since the previous request to it completed.
C3_StartAfterCompletion ==
    [][\A t \in Tasks :
          (tpc[t] = "ready" /\ tpc'[t] = "in_flight" /\ Domain(turl[t]) \in RealDomains) =>
              LET d == Domain(turl[t]) IN
              /\ InFlight(d) = {}
              /\ doneAt[d] = -1 \/ now - doneAt[d] >= MinDelay]_vars

\* C4: the limiter never raises, and a call whose url has no domain (empty netloc)
\* takes the flat min_delay sleep: it neither queues on a lock nor reads or writes the
\* timestamp and lock maps.
C4_FlatDelayWithoutDomain ==
    /\ \A t \in Tasks : tpc[t] # "raised"
    /\ \A t \in Tasks : tpc[t] \in {"lock_wait", "sleeping"} => Domain(turl[t]) # ""
    /\ last_at[""] = -1
    /\ ~locks[""].made

-----------------------------------------------------------------------------
\* Claims about run_scraper, checked under SpecRun.

\* The identity key as the specification words it: strip(lower(company_name)).
IdentityKey(l) == Strip(LowerStr(l.company_name))

Deduplicated == pc \in {"gather", "sort", "done", "aborted"} /\ leads # <<>>

KeptWithKey(k) == {p \in DOMAIN unique_leads : IdentityKey(leads[unique_leads[p]]) = k}

FirstWithKey(k) ==
    CHOOSE i \in DOMAIN leads :
        /\ IdentityKey(leads[i]) = k
        /\ \A j \in 1..(i - 1) : IdentityKey(leads[j]) # k

\* The enrichment tasks are exactly one per kept record, in order.
OneTaskPerKept == DOMAIN results = DOMAIN unique_leads

\* C5 as stated: for ANY raw records, every key occurring among them is kept exactly
\* once, by its first record in source order.
C5_OnePerKey ==
    Deduplicated =>
        \A i \in DOMAIN leads :
            LET k == IdentityKey(leads[i]) IN
            /\ Cardinality(KeptWithKey(k)) = 1
            /\ \A p \in KeptWithKey(k) : unique_leads[p] = FirstWithKey(k)

\* C5 amended: every NON-EMPTY key occurring among the raw records is kept exactly
\* once, by its first record in source order (registry before directory); a record
\* with an empty key is never kept; and one enrichment task exists per kept record,
\* so no identity is enriched twice.
C5_OnePerNonEmptyKey ==
    Deduplicated =>
        /\ \A i \in DOMAIN leads :
              LET k == IdentityKey(leads[i]) IN
              IF k = <<>> THEN KeptWithKey(k) = {}
              ELSE /\ Cardinality(KeptWithKey(k)) = 1
                   /\ \A p \in KeptWithKey(k) : unique_leads[p] = FirstWithKey(k)
        /\ \A p, q \in DOMAIN unique_leads : p < q => unique_leads[p] < unique_leads[q]
        /\ OneTaskPerKept

\* "Acme" from the registry and "acme" from the directory: only the first is kept.
C5_Witness ==
    /\ Deduplicated
    /\ \E i, j \in DOMAIN leads :
        /\ i < j
        /\ leads[i].company_name # leads[j].company_name
        /\ IdentityKey(leads[i]) = IdentityKey(leads[j])
        /\ leads[i].source # leads[j].source
        /\ \E p \in DOMAIN unique_leads : unique_leads[p] = i
        /\ ~\E p \in DOMAIN unique_leads : unique_leads[p] = j

Score(i) == leads[i].data_quality_score

PosInUnique(i) == CHOOSE p \in DOMAIN unique_leads : unique_leads[p] = i

\* C6: the returned list holds no record with a negative score, is ordered by
\* non-increasing score, and records with equal scores keep the relative order they
\* had in the de-duplicated input.
C6_RankedStable ==
    pc = "done" =>
        /\ \A p \in DOMAIN enriched_leads : Score(enriched_leads[p]) >= 0
        /\ \A p, q \in DOMAIN enriched_leads :
              p < q =>
                /\ Score(enriched_leads[p]) >= Score(enriched_leads[q])
                /\ Score(enriched_leads[p]) = Score(enriched_leads[q]) =>
                      PosInUnique(enriched_leads[p]) < PosInUnique(enriched_leads[q])

\* A returned list with a tie whose later member outranks an earlier input record.
C6_Witness ==
    /\ pc = "done"
    /\ \E p, q, r \in DOMAIN enriched_leads :
        /\ p < q /\ q < r
        /\ Score(enriched_leads[p]) = Score(enriched_leads[q])
        /\ Score(enriched_leads[q]) > Score(enriched_leads[r])
        /\ PosInUnique(enriched_leads[r]) < PosInUnique(enriched_leads[q])

\* The record's codes do not intersect a configured target code set.
OffTarget(i) ==
    /\ target_sic_codes # {}
    /\ target_sic_codes \cap Range(ExtractSicCodesList(leads[i].sic_codes)) = {}

Returned(i) == \E p \in DOMAIN enriched_leads : enriched_leads[p] = i

\* C7: when a target code set is configured and a record's codes do not intersect it,
\* enrichment returns the record with the negative sentinel score; gather holds one
\* result per de-duplicated record; the record is dropped only by the aggregation, so
\* it is absent from the returned list.
C7_FilteredAtAggregation ==
    /\ Deduplicated => OneTaskPerKept
    /\ \A p \in DOMAIN results :
          (results[p].kind = "lead" /\ OffTarget(unique_leads[p])) =>
              /\ results[p].ref = unique_leads[p]
              /\ Score(unique_leads[p]) = -1
    /\ pc = "done" => \A i \in DOMAIN leads : OffTarget(i) => ~Returned(i)

C7_Witness ==
    /\ pc = "done"
    /\ enriched_leads # <<>>
    /\ \E p \in DOMAIN results :
        /\ results[p].kind = "lead"
        /\ OffTarget(unique_leads[p])
        /\ Score(unique_leads[p]) = -1
        /\ ~Returned(unique_leads[p])

\* C10: an enrichment task that raises cancels no sibling and does not abort the run:
\* once gather is over, every task has run to completion (a Lead or an exception), one
\* outcome per de-duplicated record.
C10_FailureIsolated ==
    /\ pc # "aborted"
    /\ \A p \in DOMAIN results : results[p].kind # "cancelled"
    /\ (pc \in {"sort", "done"} /\ leads # <<>>) =>
          /\ OneTaskPerKept
          /\ \A p \in DOMAIN results : results[p].kind \in {"lead", "exception"}

\* The task of one record raised; the task of a later record still returned its
\* record, and the run finished with that record in the returned list.
C10_Witness ==
    /\ pc = "done"
    /\ \E p, q \in DOMAIN results :
        /\ p < q
        /\ results[p].kind = "exception"
        /\ results[q].kind = "lead"
        /\ Returned(results[q].ref)

\* The weighted-presence sum as the contract states it.
WeightedPresence(l) ==
    LET w(b, n) == IF b THEN n ELSE 0 IN
    w(l.phone_number, 20) + w(l.email, 20) + w(l.linkedin, 15) + w(l.ceo_name, 15)
        + w(l.employee_count, 10) + w(l.phone_verified, 10) + w(l.email_verified, 10)

\* The record was marked by the SIC filter of its enrichment.
FilterMarked ==
    /\ lpc = "enriched"
    /\ target_sic_codes # {}
    /\ target_sic_codes \cap Range(ExtractSicCodesList(lead.sic_codes)) = {}

FiveDigitCodes(text) ==
    {SubSeq(text, i, i + 4) : i \in
        {j \in 1..(Len(text) - 4) :
            /\ \A k \in j..(j + 4) : text[k] \in Digits
            /\ j = 1 \/ ~IsWordChar(text[j - 1])
            /\ j + 4 = Len(text) \/ ~IsWordChar(text[j + 5])}}

IndustryMatch == IF target_sic_codes = {} \/ target_sic_codes \cap FiveDigitCodes(icp_sic) # {}
                 THEN 1 ELSE 0

IsSubstring(sub, s) == \E i \in 0..(Len(s) - Len(sub)) : SubSeq(s, i + 1, i + Len(sub)) = sub

\* The target location exactly as configured.
LocationMatchAsConfigured ==
    IF target_location = <<>> \/ IsSubstring(LowerStr(target_location), LowerStr(icp_addr))
    THEN 1 ELSE 0

\* The target location with surrounding whitespace removed.
LocationMatchTrimmed ==
    IF Strip(target_location) = <<>>
          \/ IsSubstring(LowerStr(Strip(target_location)), LowerStr(icp_addr))
    THEN 1 ELSE 0

\* The two worked examples: full match scores 1.0, no match scores 0.0.
IcpExamples ==
    (target_sic_codes = {S_73110} /\ target_location = S_london) =>
        /\ (icp_sic = S_73110 /\ icp_addr = S_HighSt) => icp_score = 100
        /\ (icp_sic = S_62012 /\ icp_addr = S_Leeds) => icp_score = 0

\* C9 as stated: the score is 0.7*industryMatch + 0.3*locationMatch with locationMatch
\* 1 iff the target location is empty or a case-insensitive substring of the address.
C9_IcpScoreAsConfigured ==
    icp_score # -1 =>
        /\ icp_score = 70 * IndustryMatch + 30 * LocationMatchAsConfigured
        /\ IcpExamples

\* C9 amended: the score is 0.7*industryMatch + 0.3*locationMatch, industryMatch being
\* 1 iff the target code set is empty or intersects the record's 5-digit codes, and
\* locationMatch being 1 iff the target location, with surrounding whitespace removed,
\* is empty or a case-insensitive substring of the address; the two examples hold.
C9_IcpScoreTrimmed ==
    icp_score # -1 =>
        /\ icp_score = 70 * IndustryMatch + 30 * LocationMatchTrimmed
        /\ IcpExamples

\* Target "London " (trailing blank) and address "1 High St, London": the location
\* matches although "london " is no substring of the address.
C9_Witness ==
    /\ icp_score = 100
    /\ target_sic_codes = {S_73110}
    /\ target_location = S_London_sp
    /\ icp_sic = S_two_codes
    /\ icp_addr = S_HighSt

\* C11 as stated: a record whose enrichment task failed is still part of the list
\* run_scraper returns.
C11_FailedRecordRetained ==
    pc = "done" =>
        \A p \in DOMAIN results :
            results[p].kind = "exception" => Returned(unique_leads[p])

\* BotConfig.max_workers as configured for the run (the field's default is 5).
MaxWorkers == 2

\* The enrichment tasks started by gather and not yet finished.
RunningTasks == {p \in DOMAIN results : results[p] = Pending}

\* C12 as stated: the number of enrichment tasks running at the same time never
\* exceeds the configured ceiling, however many records were de-duplicated.
C12_BoundedConcurrency == Cardinality(RunningTasks) <= MaxWorkers

-----------------------------------------------------------------------------
\* Claims about the source phase, checked under SpecCrawl.

\* scrape_companies_house has returned.
RegistryReturned == cpc \in {"ch_returned", "clutch", "src_done"}

\* C13 as stated: no failure of page or context creation, navigation, extraction or
\* source scraping propagates out of run_scraper.
C13_NoFailurePropagates == cpc # "raised"

\* C14 as stated: when an exception reached the outer handler of
\* scrape_companies_house, the registry contributes no record to the run, and the
\* directory scrape is still run.
C14_FailedSourceContributesNothing ==
    (ch_failed /\ RegistryReturned) =>
        /\ ch_count = 0
        /\ cpc = "src_done" => clutch_ran

\* C15 as stated: when fetching a results page failed for a query that is not the last
\* one (and the target was not met), the next query is still submitted.
C15_NextQueryAfterPageFailure ==
    (RegistryReturned /\ page_failed_at # 0 /\ page_failed_at < Len(Queries)
        /\ ch_count < TargetCount) =>
        \E k \in DOMAIN submitted : submitted[k] = page_failed_at + 1

\* C16 as stated: a failure during a company-detail or officer visit never ends the
\* loops over rows, pages and queries.
C16_VisitFailureContained == abort_cause # "visit"

\* C17: no company URL is visited more than once in a run, whatever became of its
\* first visit; the visited set holds exactly the URLs whose visit was started, is
\* empty when the run starts and never loses a URL.
C17_NoRevisit ==
    /\ [](/\ \A u \in CompanyUrls : visits[u] <= 1 /\ (visits[u] = 1 <=> u \in visited)
          /\ cpc \in {"run_start", "ch_start", "home"} => visited = {})
    /\ [][visited \subseteq visited']_vars

\* A later query lists again a URL whose visit gave no record: it is about to be skipped.
C17_Witness ==
    /\ cpc = "rows"
    /\ qi >= 2
    /\ rows # <<>>
    /\ Head(rows).url \in visited
    /\ visits[Head(rows).url] = 1
    /\ ch_count = 0

\* C18 as stated: a detail visit is started only for the row at hand, when its status
\* reads active and its URL was not visited before, in both modes.
C18_VisitOnlyActiveUnvisited ==
    [][\A u \in CompanyUrls :
          visits'[u] # visits[u] =>
              /\ rows # <<>>
              /\ Head(rows).url = u
              /\ Head(rows).active
              /\ u \notin visited]_vars

\* C19 as stated: every navigation step made was preceded by a rate-limiter wait on
\* its URL and followed by a consent-dialog dismissal attempt.
C19_EveryNavigationGated == \A n \in navs : n.waited /\ n.consent

\* The seeds without their repetitions, first occurrences kept in order.
KeepFirst(seeds) ==
    LET idx == {k \in DOMAIN seeds : \A j \in 1..(k - 1) : seeds[j] # seeds[k]}
        nth(n) == CHOOSE k \in idx : Cardinality({j \in idx : j <= k}) = n
    IN [n \in 1..Cardinality(idx) |-> seeds[nth(n)]]

IndustryAndLocation ==
    IF Strip(target_industry) # <<>> /\ Strip(target_location) # <<>>
    THEN <<Strip(target_industry) \o <<" ">> \o Strip(target_location)>> ELSE <<>>

\* The generic marketing/agency queries, each qualified by the location.
LocationQualified ==
    LET loc == <<" ">> \o Strip(target_location) IN
    <<<<"d", "i", "g", "i", "t", "a", "l", " ", "m", "a", "r", "k", "e", "t", "i", "n", "g">> \o loc,
      <<"m", "a", "r", "k", "e", "t", "i", "n", "g", " ", "a", "g", "e", "n", "c", "y">> \o loc,
      <<"a", "d", "v", "e", "r", "t", "i", "s", "i", "n", "g", " ", "a", "g", "e", "n", "c", "y">> \o loc,
      <<"c", "r", "e", "a", "t", "i", "v", "e", " ", "a", "g", "e", "n", "c", "y">> \o loc>>

\* The generic queries used when no location is configured.
Unqualified == <<<<"d", "i", "g", "i", "t", "a", "l", " ", "m", "a", "r", "k", "e", "t", "i", "n", "g", " ", "a", "g", "e", "n", "c", "y">>, <<"a", "d", "v", "e", "r", "t", "i", "s", "i", "n", "g", " ", "a", "g", "e", "n", "c", "y">>>>

\* Submission and pagination in targeted mode: queries are submitted one by one in list
\* order; a further results page is fetched only through an enabled next link while the
\* target is not met; pagination of a query ends, failures apart, only on a page
\* without company links, without an enabled next link, or with the target met.
TargetedCrawlOrder ==
    /\ [](~exhaustive_mode =>
            /\ Len(submitted) <= Len(Queries)
            /\ \A k \in DOMAIN submitted : submitted[k] = k)
    /\ [][~exhaustive_mode =>
            /\ (cpc = "rows" /\ cpc' = "page") =>
                  /\ page_num' = page_num + 1
                  /\ next_link /\ ~page_empty /\ ch_count < TargetCount
            /\ (cpc \in {"page", "rows"} /\ cpc' = "query") =>
                  page_empty' \/ ~next_link' \/ ch_count' >= TargetCount]_vars

\* C20 as stated: the query list is the industry+location query (when both are
\* configured) followed by the location-qualified generic queries, without duplicates.
C20_QueryListAsStated ==
    /\ [](~exhaustive_mode => Queries = KeepFirst(IndustryAndLocation \o LocationQualified))
    /\ TargetedCrawlOrder

\* C20 amended: as stated when a location is configured; when none is configured the
\* list is the two unqualified generic queries.
C20_QueryList ==
    /\ [](~exhaustive_mode =>
            Queries = KeepFirst(IndustryAndLocation \o
                         (IF Strip(target_location) # <<>> THEN LocationQualified
                          ELSE Unqualified)))
    /\ TargetedCrawlOrder

\* Industry "digital marketing" repeats the first generic query: four queries remain;
\* the second one is submitted and its second results page is being processed.
C20_Witness ==
    /\ ~exhaustive_mode
    /\ target_industry = S_digital_marketing
    /\ Len(Queries) = 4
    /\ submitted = <<1, 2>>
    /\ page_num = 2
    /\ cpc = "rows"

\* C21: in exhaustive mode the k-th search term submitted is the k-th letter of the
\* alphabet, so letters go in alphabetical order and none twice; a letter is submitted
\* only while fewer than target_count records are collected and, after the first, only
\* when pagination of the previous letter has ended on a page without enabled next link
\* or without rows.
C21_LettersInOrder ==
    /\ [](exhaustive_mode =>
            /\ Len(submitted) <= Len(Queries)
            /\ \A k \in DOMAIN submitted : Queries[submitted[k]] = <<Alphabet[k]>>)
    /\ [][(exhaustive_mode /\ submitted' # submitted) =>
            /\ ch_count < TargetCount
            /\ ch_count' < TargetCount
            /\ submitted' = Append(submitted, Len(submitted) + 1)
            /\ submitted # <<>> => (cpc = "query" /\ (~next_link \/ page_empty))]_vars

\* The second letter is submitted after the first one gave a record over two pages.
C21_Witness ==
    /\ exhaustive_mode
    /\ submitted = <<1, 2>>
    /\ cpc = "page"
    /\ ch_count = 1
    /\ \E n \in navs : n.kind = "next"

-----------------------------------------------------------------------------
\* Claims about _merge_selectors, checked under SpecMerge.

\* The merge rule for two mappings whose common keys hold no two mappings.
FlatRule(m, l, d) ==
    /\ DOMAIN m = DOMAIN d \cup DOMAIN l
    /\ \A k \in DOMAIN m : m[k] = IF k \in DOMAIN l THEN l[k] ELSE d[k]

\* C22: in the mapping returned, a default key without override counterpart keeps its
\* default value, a key only in the override keeps the override's value, and a key in
\* both takes the override's value in full unless both values are mappings, which are
\* then merged by the same rule.
C22_MergeRule ==
    merged.done =>
        LET m == merged.v IN
        /\ DOMAIN m = DOMAIN default \cup DOMAIN loaded
        /\ \A k \in DOMAIN default \ DOMAIN loaded : m[k] = default[k]
        /\ \A k \in DOMAIN loaded \ DOMAIN default : m[k] = loaded[k]
        /\ \A k \in DOMAIN loaded \cap DOMAIN default :
              IF IsDict(loaded[k]) /\ IsDict(default[k])
              THEN IsDict(m[k]) /\ FlatRule(m[k].v, loaded[k].v, default[k].v)
              ELSE m[k] = loaded[k]

\* Key "a" holds a field group on both sides, whose key "a" only the defaults have and
\* whose key "b" both have; key "b" is only in the override.
C22_Witness ==
    /\ merged.done
    /\ DOMAIN default = {"a"} /\ DOMAIN loaded = {"a", "b"}
    /\ IsDict(default["a"]) /\ IsDict(loaded["a"])
    /\ DOMAIN default["a"].v = {"a", "b"} /\ DOMAIN loaded["a"].v = {"b"}
    /\ merged.v["a"].v["a"] = List(<<"s1", "s2">>)
    /\ merged.v["a"].v["b"] = List(<<"s3">>)
    /\ merged.v["b"] = Str("x")

\* The field paths at which the table t holds a selector list: <<k>> or <<k, j>>.
ListPaths(t) ==
    {<<k>> : k \in {x \in DOMAIN t : t[x].t = "list"}}
        \cup UNION {{<<k, j>> : j \in {y \in DOMAIN t[k].v : t[k].v[y].t = "list"}} :
                        k \in {x \in DOMAIN t : IsDict(t[x])}}

\* The table t has a value at the path.
HasPath(t, path) ==
    /\ path[1] \in DOMAIN t
    /\ Len(path) = 2 => (IsDict(t[path[1]]) /\ path[2] \in DOMAIN t[path[1]].v)

ValueAt(t, path) == IF Len(path) = 1 THEN t[path[1]] ELSE t[path[1]].v[path[2]]

\* The merged table holds, at the path, a list at least as long as the default's.
NotShorter(path) ==
    /\ HasPath(merged.v, path)
    /\ ValueAt(merged.v, path).t = "list"
    /\ Len(ValueAt(merged.v, path).v) >= Len(ValueAt(default, path).v)

\* C23 as stated: at every path where the defaults hold a selector list, the merged
\* list is not shorter, unless the override gives the empty list at that path.
C23_NeverShorterUnlessEmptied ==
    merged.done =>
        \A path \in ListPaths(default) :
            \/ HasPath(loaded, path) /\ ValueAt(loaded, path) = List(<<>>)
            \/ NotShorter(path)

\* The override says something about the path: a value at the path itself, or a
\* value that is no mapping in place of the field group around it.
OverrideReaches(path) ==
    /\ path[1] \in DOMAIN loaded
    /\ Len(path) = 2 => (~IsDict(loaded[path[1]]) \/ path[2] \in DOMAIN loaded[path[1]].v)

\* C23 amended: at every path where the defaults hold a selector list and which the
\* override does not reach, the merged table holds the default list itself (so it is
\* not shorter); where the override gives a value at the path, that value, be it a
\* shorter or an empty list, is what the merged table holds.
C23_DefaultListKeptUnlessOverridden ==
    merged.done =>
        \A path \in ListPaths(default) :
            /\ ~OverrideReaches(path) =>
                  /\ NotShorter(path)
                  /\ ValueAt(merged.v, path) = ValueAt(default, path)
            /\ HasPath(loaded, path) =>
                  /\ HasPath(merged.v, path)
                  /\ ValueAt(merged.v, path) = ValueAt(loaded, path)

\* The override gives one selector where the defaults list two; the default list next
\* to it is kept.
C23_Witness ==
    /\ merged.done
    /\ <<"a", "a">> \in ListPaths(default)
    /\ <<"a", "b">> \in ListPaths(default)
    /\ HasPath(loaded, <<"a", "a">>)
    /\ ~OverrideReaches(<<"a", "b">>)
    /\ merged.v["a"].v["a"] = List(<<"s3">>)
    /\ merged.v["a"].v["b"] = List(<<"s1", "s2">>)

-----------------------------------------------------------------------------
\* Claims about _extract_sic_codes_list, checked under SpecSicList.

\* Where a run of exactly five digits stands alone in the text.
TokenStarts(text) ==
    {j \in 1..(Len(text) - 4) :
        /\ \A k \in j..(j + 4) : text[k] \in Digits
        /\ j = 1 \/ ~IsWordChar(text[j - 1])
        /\ j + 4 = Len(text) \/ ~IsWordChar(text[j + 5])}

FirstStart(text, code) ==
    CHOOSE j \in TokenStarts(text) :
        /\ SubSeq(text, j, j + 4) = code
        /\ \A i \in TokenStarts(text) : SubSeq(text, i, i + 4) = code => j <= i

\* C25: the list returned holds every standalone 5-digit token of the text, each once,
\* in the order of first occurrence; it is empty for the empty text and for "Unknown";
\* the example text gives [73110, 62012]; and the function applied to its own output
\* joined by ", " returns the same list.
C25_CodesOnceInOrder ==
    sic_list.done =>
        LET r == sic_list.v IN
        /\ Range(r) = FiveDigitCodes(sic_input)
        /\ \A i, j \in DOMAIN r : i < j =>
              /\ r[i] # r[j]
              /\ FirstStart(sic_input, r[i]) < FirstStart(sic_input, r[j])
        /\ sic_input \in {<<>>, S_Unknown} => r = <<>>
        /\ sic_input = S_example => r = <<S_73110, S_62012>>
        /\ ExtractSicCodesList(JoinCodes(r)) = r

\* The example text has been processed.
C25_Witness ==
    sic_list.done /\ sic_input = S_example /\ sic_list.v = <<S_73110, S_62012>>

-----------------------------------------------------------------------------
\* Claims about _extract_sic, checked under SpecExtractSic.

\* A selector errors: its locator raises, or the text of one of its elements does.
SelectorErrors(sel) ==
    sic_page[sel].raises \/ \E k \in DOMAIN sic_page[sel].els : sic_page[sel].els[k].raises

\* The element texts with a 5-digit code that a selector yields, in page order; an
\* erroring selector yields nothing.
RECURSIVE CodeTexts(_)
CodeTexts(els) ==
    IF els = <<>> THEN <<>>
    ELSE IF HasSicCode(Head(els).text) THEN <<Head(els).text>> \o CodeTexts(Tail(els))
    ELSE CodeTexts(Tail(els))

Yield(sel) == IF SelectorErrors(sel) THEN <<>> ELSE CodeTexts(sic_page[sel].els)

\* The positions in the configured list of the selectors that yield a text with a code.
Yielding == {k \in DOMAIN sic_selector_configs : Yield(sic_selector_configs[k]) # <<>>}

FirstYielding == CHOOSE k \in Yielding : \A j \in Yielding : k <= j

\* C24: the selectors are tried in configured order up to the first that yields a text
\* with a 5-digit code; the codes returned are those of that selector's texts and no
\* later selector is consulted; when none yields, the value next to the label is used,
\* and "Unknown" is returned when that has no code either; a selector that errors or
\* times out counts as yielding nothing.
C24_FirstYieldingSelector ==
    sic_code.done =>
        IF Yielding # {}
        THEN /\ sic_consulted = SubSeq(sic_selector_configs, 1, FirstYielding)
             /\ sic_code.v = JoinCodes(ExtractSicCodesList(
                                JoinLines(Yield(sic_selector_configs[FirstYielding]))))
        ELSE /\ sic_consulted = sic_selector_configs
             /\ sic_code.v = IF sic_label.count > 0 /\ ~sic_label.raises
                                  /\ HasSicCode(sic_label.text)
                             THEN sic_label.text ELSE S_Unknown

-----------------------------------------------------------------------------
\* Claims about website discovery, checked under SpecGuess.

\* The hostname of a result link, "" for a link without one.
HostOf(href) == UpToSlash(href.rest)

OnExclusionList(host) == \E bad \in BadHosts : IsSubstring(bad, host)

\* The first token of the company name, as compared with hostnames.
NameToken == FirstToken(LowerStr(company_name))

\* The results of the page the discovery returned from whose hostname is not excluded,
\* and those among them whose hostname contains the first token of the company name.
Eligible ==
    {k \in DOMAIN search_page.links :
        HostOf(search_page.links[k]) # <<>> /\ ~OnExclusionList(HostOf(search_page.links[k]))}
Named == {k \in Eligible : IsSubstring(NameToken, LowerStr(HostOf(search_page.links[k])))}

\* C26: discovery starts only for a record whose website is empty or on a registry
\* domain; the website it returns is that of a result of the page whose hostname is not
\* excluded; and when some non-excluded result of that page has a hostname containing
\* the first token of the company name, the hostname returned contains it too.
C26_DiscoveryPrefersNamedHost ==
    /\ [][(gpc = "enrich" /\ gpc' = "search") =>
            (NoWebsite \/ \E h \in ChDomains : IsSubstring(h, LowerStr(HostOf(website))))]_vars
    /\ [](guessed.c.found =>
            /\ \E k \in Eligible : HostOf(search_page.links[k]) = guessed.c.url.rest
            /\ Named # {} => IsSubstring(NameToken, LowerStr(guessed.c.url.rest)))

-----------------------------------------------------------------------------
\* Claims about _choose_ceo_from_officers, checked under SpecCeo.

\* The seniority of a role by the priority of titles: 1 for the chief executive
\* variants, 2 for managing director, 3 for director, 4 for owner, founder or
\* proprietor, 5 for a role with none of the keywords.
Seniority(role) ==
    LET r == LowerStr(role) IN
    IF \E i \in 1..3 : IsSubstring(Preferred[i], r) THEN 1
    ELSE IF IsSubstring(Preferred[4], r) THEN 2
    ELSE IF IsSubstring(Preferred[5], r) THEN 3
    ELSE IF \E i \in 6..8 : IsSubstring(Preferred[i], r) THEN 4
    ELSE 5

\* The officers with a keyword in the role and a name.
Titled == {k \in DOMAIN officer_list :
              Seniority(officer_list[k].role) < 5 /\ Strip(officer_list[k].name) # <<>>}

\* C27: the name returned is that of an officer of the best seniority among the titled
\* officers, wherever they stand in the list; with no titled officer it is the name of
\* the first officer; with no officers nothing is returned.
C27_MostSeniorOfficer ==
    chosen_ceo.done =>
        IF officer_list = <<>> THEN chosen_ceo.v = NoName
        ELSE IF Titled = {} THEN chosen_ceo.v = Name(officer_list[1].name)
        ELSE \E k \in Titled :
                /\ \A j \in Titled :
                      Seniority(officer_list[k].role) <= Seniority(officer_list[j].role)
                /\ chosen_ceo.v = Name(Strip(officer_list[k].name))

-----------------------------------------------------------------------------
\* Claims about contact harvesting, checked under SpecHttp.

\* C28: the URLs are fetched in the order of the path list, the homepage first, each at
\* most once and none left out except those skipped for robots.txt; and no fetch is
\* issued once the record has both a phone number and an email.
C28_FixedOrderEarlyStop ==
    /\ [](/\ \A i, j \in DOMAIN fetched : i < j => fetched[i] < fetched[j]
          /\ \A k \in 1..Len(TryPaths) :
                (\E i \in DOMAIN fetched : fetched[i] > k) =>
                    \/ respect_robots /\ k \in disallowed
                    \/ \E i \in DOMAIN fetched : fetched[i] = k)
    /\ [][fetched' # fetched => ~(contacts.phone_number /\ contacts.email)]_vars
    /\ []((contacts.phone_number /\ contacts.email) => hpc = "returned")

\* The homepage gave the phone, /contact was skipped for robots.txt, /contact-us gave
\* the email, and the harvest returned with three paths left.
C28_Witness ==
    /\ hpc = "returned"
    /\ contacts.phone_number /\ contacts.email
    /\ respect_robots
    /\ fetched = <<1, 3>>
    /\ disallowed = {2}

\* C29: a URL that robots.txt disallows, with robots checking enabled, is neither
\* waited for nor fetched, the loop goes on to the next path and nothing is raised;
\* every other URL the loop comes to (robots checking disabled, the check failing
\* or allowing) is waited for and fetched.
C29_RobotsSkipOnly ==
    [][(hpc = "loop" /\ path_i <= Len(TryPaths)) =>
          IF respect_robots /\ path_i \in disallowed'
          THEN /\ wait_calls' = wait_calls /\ fetched' = fetched
               /\ path_i' = path_i + 1 /\ hpc' = "loop"
               /\ contacts' = contacts
          ELSE /\ wait_calls' = Append(wait_calls, path_i)
               /\ fetched' = Append(fetched, path_i)]_vars

\* The homepage was skipped for robots.txt and the next two paths were fetched.
C29_Witness ==
    /\ respect_robots
    /\ disallowed = {1}
    /\ fetched = <<2, 3>>
    /\ wait_calls = <<2, 3>>
    /\ hpc = "loop"

-----------------------------------------------------------------------------
\* The end-to-end scenario, checked under SpecRun.

\* Raw record i has codes among the configured target codes.
FullyMatching(i) ==
    target_sic_codes \cap FiveDigitCodes(leads[i].sic_codes) # {}

NoCodes(i) == FiveDigitCodes(leads[i].sic_codes) = {}

NameKey(i) == LowerStr(Strip(leads[i].company_name))

\* Three raw records f, n and d: f fully matching, n without codes, d a later record
\* with the name of f or of n; f and n carry different names.
Scenario(f, n, d) ==
    /\ Len(leads) = 3 /\ {f, n, d} = {1, 2, 3}
    /\ target_sic_codes # {}
    /\ FullyMatching(f) /\ NoCodes(n)
    /\ NameKey(f) # <<>> /\ NameKey(n) # <<>> /\ NameKey(f) # NameKey(n)
    /\ \/ NameKey(d) = NameKey(f) /\ f < d
       \/ NameKey(d) = NameKey(n) /\ n < d

\* C30: when the run that gathered the three records of the scenario has returned, it
\* has returned exactly two records, the fully matching one first.
C30_EndToEndTwoRecords ==
    \A f, n, d \in 1..3 :
        (pc = "done" /\ Scenario(f, n, d)) =>
            /\ Len(enriched_leads) = 2
            /\ enriched_leads[1] = f

-----------------------------------------------------------------------------
\* Claims about the registry crawl and the final filter, checked under SpecCrawlFilter.

\* enrich_lead_data, the final filter: `if self.config.sic_codes` and
\* `not self._sic_matches_target(lead.sic_codes or "")`.
FinalFilterFails(sic_codes) == target_sic_codes # {} /\ ~SicMatchesTarget(sic_codes)

\* C31, as stated: a record that fails the final SIC filter is still counted toward
\* target_count. Whenever the crawl loads the profile page of an active company at a
\* matching address whose codes fail the final filter, len(leads) grows by one.
C31_OffTargetStillCounted ==
    [][\A u \in CompanyUrls :
          (/\ u \notin visited /\ u \in visited'
           /\ PoliteGoto("company") \notin navs /\ PoliteGoto("company") \in navs'
           /\ site[u].active
           /\ AddressMatches(site[u].address)
           /\ FinalFilterFails(site[u].sic))
          => (ch_count' = ch_count + 1)]_vars

\* C31, amended: every record counted toward target_count has passed the SIC check of
\* the profile visit, which is the check of the final filter, so no counted record fails
\* the final SIC filter; len(leads) counts exactly the Leads appended.
C31_CountedPassFinalFilter ==
    /\ ch_count = Len(ch_leads)
    /\ \A i \in DOMAIN ch_leads : ~FinalFilterFails(ch_leads[i].sic_codes)

\* The crawl has returned with a counted record after visiting a company whose codes
\* do not match the configured target.
C31_Witness ==
    /\ cpc = "ch_returned"
    /\ ~ch_failed
    /\ target_sic_codes # {}
    /\ ch_count >= 1
    /\ \E u \in visited : site[u].active /\ FinalFilterFails(site[u].sic)

-----------------------------------------------------------------------------
\* Claims about the social-profile points, checked under SpecLead.

\* The points of the six fields other than the social profile.
OtherPoints(l) ==
      (IF l.phone_number THEN 20 ELSE 0) + (IF l.email THEN 20 ELSE 0)
    + (IF l.ceo_name THEN 15 ELSE 0) + (IF l.employee_count THEN 10 ELSE 0)
    + (IF l.phone_verified THEN 10 ELSE 0) + (IF l.email_verified THEN 10 ELSE 0)

\* C32: a record for which contact harvesting found a LinkedIn company link has the 15
\* social-profile points in the score recomputed at the end of enrichment.
C32_SocialLinkScores ==
    (lpc = "enriched" /\ lead.socials /\ lead.data_quality_score # -1)
        => lead.data_quality_score = OtherPoints(lead) + 15

-----------------------------------------------------------------------------
\* Claims about the target count, checked under SpecCrawl.

\* C33: the number of collected records never exceeds target_count, and once it equals
\* target_count no company detail visit, no next-page transition and no query or letter
\* submission is started.
C33_StopsAtTarget ==
    /\ [](ch_count <= TargetCount /\ ch_count = Len(ch_leads))
    /\ [][(ch_count = TargetCount) =>
            (/\ visits' = visits
             /\ submitted' = submitted
             /\ page_num' = page_num)]_vars

-----------------------------------------------------------------------------
\* Claims about the officers section, checked under SpecOfficers.

Included(i) == \E k \in DOMAIN returned_lead.officers : returned_lead.officers[k].card = i

\* C34: if the visit to an officer's detail page fails, the officer is still in the
\* record's officer list with name, role and status, the remaining cards are processed
\* and the record is returned; if the officers sub-navigation fails, the record is
\* returned with an empty officer list.
C34_OfficerFailureContained ==
    opc = "returned" =>
          /\ returned_lead.done
          /\ tab_failed => returned_lead.officers = <<>>
          /\ ~tab_failed /\ cards # <<>> => card_i = Len(cards) + 1
          /\ \A i \in detail_failed : Included(i)

-----------------------------------------------------------------------------
\* Claims about the harvested contacts, checked under SpecHttp.

\* The path of the first harvested page that held a valid value of the kind, 0 if none.
FirstFound(kinds) ==
    LET hits == {i \in DOMAIN harvested : harvested[i].found \in kinds} IN
    IF hits = {} THEN 0
    ELSE harvested[CHOOSE i \in hits : \A j \in hits : i <= j].path

\* C35: during contact harvesting the phone number and the email are write-once, the
\* value kept is the first valid one found in path order, and phone_verified
\* (email_verified) is set exactly when harvesting sets the phone (the email).
C35_ContactsWriteOnce ==
    /\ [][(contacts.phone_number =>
              (contacts'.phone_number /\ contacts'.phone_value = contacts.phone_value))
          /\ (contacts.email =>
              (contacts'.email /\ contacts'.email_value = contacts.email_value))
          /\ ((contacts'.phone_verified # contacts.phone_verified)
              <=> (contacts'.phone_number # contacts.phone_number))
          /\ ((contacts'.email_verified # contacts.email_verified)
              <=> (contacts'.email # contacts.email))]_vars
    /\ [](/\ contacts.phone_value = FirstFound({"phone", "both"})
          /\ contacts.email_value = FirstFound({"email", "both"})
          /\ contacts.phone_verified <=> contacts.phone_number
          /\ contacts.email_verified <=> contacts.email)

\* The homepage gave a phone number, /contact another phone number and an email
\* address: the phone of the homepage is kept.
C35_Witness ==
    /\ hpc = "returned"
    /\ Len(harvested) = 2
    /\ harvested[1] = [path |-> 1, found |-> "phone"]
    /\ harvested[2] = [path |-> 2, found |-> "both"]
    /\ contacts.phone_value = 1
    /\ contacts.email_value = 2

-----------------------------------------------------------------------------
\* Claims about the returned records, checked under SpecRun.

\* C36: every record in the list returned by run_scraper has
\* ideal_customer_profile_match exactly 1.0.
C36_ReturnedRecordsFullIcp ==
    pc \in {"sort", "done"} =>
        \A k \in DOMAIN enriched_leads :
            leads[enriched_leads[k]].ideal_customer_profile_match = 100

\* With london as target location and no target codes, the list returned holds a
\* registry record with a director, whose boost is capped, and a directory record.
C36_Witness ==
    /\ pc = "done"
    /\ target_location # <<>>
    /\ \E j, k \in DOMAIN enriched_leads :
          /\ leads[enriched_leads[j]].source = "Companies House"
          /\ leads[enriched_leads[j]].senior
          /\ leads[enriched_leads[k]].source = "Clutch.co"

FromDirectory(i) == leads[i].source = "Clutch.co"

\* C37: with a non-empty target code set configured, no record from the directory
\* source is in run_scraper's output; every directory record that enrichment returns
\* carries the negative sentinel.
C37_NoDirectoryRecordReturned ==
    target_sic_codes # {} =>
        /\ \A k \in DOMAIN enriched_leads : ~FromDirectory(enriched_leads[k])
        /\ \A i \in DOMAIN results :
              (results[i].kind = "lead" /\ FromDirectory(results[i].ref))
                  => leads[results[i].ref].data_quality_score = -1

\* A run with target codes has ended: enrichment returned a directory record, and the
\* list returned holds a registry record only.
C37_Witness ==
    /\ pc = "done"
    /\ target_sic_codes # {}
    /\ \E i \in DOMAIN results : results[i].kind = "lead" /\ FromDirectory(results[i].ref)
    /\ Len(enriched_leads) = 1

NoNameKey(i) == DedupKey(leads[i].company_name) = <<>>

\* C38: a raw record whose company name is empty or whitespace-only is discarded by
\* de-duplication: it gets no enrichment task, is left as scraped and is not returned.
C38_NamelessDiscarded ==
    /\ \A w \in UNION {[1..n -> Whitespace] : n \in 0..2} : DedupKey(w) = <<>>
    /\ \A i \in DOMAIN leads :
          NoNameKey(i) =>
              /\ \A k \in DOMAIN unique_leads : unique_leads[k] # i
              /\ \A k \in DOMAIN results : results[k].ref # i
              /\ leads[i] \in RegistryLeads \cup DirectoryLeads
              /\ \A k \in DOMAIN enriched_leads : enriched_leads[k] # i

\* A run has ended whose sources gave two records without a name, one from each
\* source, and a named record, which alone is returned.
C38_Witness ==
    /\ pc = "done"
    /\ Len(leads) = 3
    /\ NoNameKey(1) /\ ~FromDirectory(1)
    /\ NoNameKey(3) /\ FromDirectory(3)
    /\ enriched_leads = <<2>>

-----------------------------------------------------------------------------
\* Claims about termination of the rate limiter, checked under SpecRLLive.

InWait(t) == tpc[t] \in {"lock_wait", "sleeping", "flat_sleep"}

\* The tasks inside `async with self._locks[d]` or queued for it.
AtLock(d) == {t \in Tasks : tpc[t] \in {"lock_wait", "sleeping"} /\ Domain(turl[t]) = d}

\* C39: every call of wait eventually ends, the lock of a domain is held only by a task
\* that is inside wait for that domain, and a caller queues only behind callers of its
\* own domain.
C39_EveryCallReturns ==
    /\ \A t \in Tasks : InWait(t) ~> ~InWait(t)
    /\ [](\A d \in Domains :
            /\ locks[d].holder # 0 => locks[d].holder \in AtLock(d)
            /\ \A k \in DOMAIN locks[d].waiters : locks[d].waiters[k] \in AtLock(d))
    /\ [](\A t \in Tasks :
            tpc[t] = "lock_wait" =>
                LET l == locks[Domain(turl[t])] IN
                \/ l.holder = t
                \/ l.holder # 0 /\ \E k \in DOMAIN l.waiters : l.waiters[k] = t)

\* Two concurrent calls for one domain have both returned, while the lock of the other
\* domain was never made.
C39_Witness ==
    \E d \in Domains :
        /\ minGap[d] # -1
        /\ \A t \in Tasks : tpc[t] = "ready" /\ Domain(turl[t]) = d
        /\ locks[d].holder = 0
        /\ \E e \in Domains : e # d /\ ~locks[e].made

====
